---- MODULE Spec2Model ----
(***************************************************************************)
(* Session registry, per-key creation lock, idle sweep, shutdown and the   *)
(* credential handling of the Anthropic provider plugin (src/index.ts).    *)
(*                                                                         *)
(* The program runs on one event loop.  An action of this model is one     *)
(* synchronous run of code between two suspension points (await / yield),  *)
(* or one whole synchronous operation.                                     *)
(***************************************************************************)
EXTENDS Integers, Sequences, FiniteSets, TLC

\* ------------------------------------------------------------------ bounds
MaxCalls == 2          \* queryV2 calls made in one behaviour
MaxTicks == 7          \* periods of the sweep timer the clock runs through
MaxMsgs  == 1          \* messages one response stream delivers
MaxInjects == 1        \* messages sendToActiveSession sends in one behaviour
MaxDiscover == 2       \* discoverModels calls in flight at once
MaxElapse == 2         \* half cache lifetimes that pass in one behaviour
MaxRetryBudget == 3    \* largest maxRetries given to retryWithBackoff
MaxRelay == 3          \* messages the upstream stream of one query() delivers
MaxContenders == 3     \* queryV2 calls that contend for the lock of one key

Keys  == {"k1", "k2"}
Calls == 1..MaxContenders   \* the queryV2 calls a behaviour may make
Callers == 1..MaxCalls     \* ... and those made where nothing else bounds them
NoSession == 0         \* Map.get() found nothing
NoLock    == 0

\* ------------------------------------------------------------- constants
SESSION_TIMEOUT_MS  == 30 * 60 * 1000
MODEL_CACHE_TTL     == 24 * 60 * 60 * 1000
CLEANUP_INTERVAL_MS == 5 * 60 * 1000

\* ------------------------------------------------- errors and their text
\* Strings are sequences of characters, so that String.includes is a real
\* substring test.
Chr_Error      == <<"E","r","r","o","r",":"," ">>
Txt_session    == <<"s","e","s","s","i","o","n">>
Txt_closed     == <<"c","l","o","s","e","d">>
Txt_NoConv     == <<"N","o"," ","c","o","n","v","e","r","s","a","t","i","o","n">>
Txt_V2Prefix   == <<"A","n","t","h","r","o","p","i","c"," ","V","2"," ",
                    "q","u","e","r","y"," ","f","a","i","l","e","d",":"," ">>
Txt_V1Prefix   == <<"A","n","t","h","r","o","p","i","c"," ",
                    "q","u","e","r","y"," ","f","a","i","l","e","d",":"," ">>

Msg_SessionClosed == <<"S","e","s","s","i","o","n"," ">> \o Txt_closed
Msg_NoConv        == Txt_NoConv \o <<" ","f","o","u","n","d">>
Msg_sessionGone   == Txt_session \o <<" ","g","o","n","e">>
Msg_RateLimit     == <<"R","a","t","e"," ","l","i","m","i","t">>
Msg_SessionCap    == <<"S","e","s","s","i","o","n"," ","l","o","s","t">>
Msg_boom          == <<"b","o","o","m">>

\* A thrown value: an Error object with a message, or a bare string.
Errors == { [isError |-> TRUE,  message |-> Msg_SessionClosed],
            [isError |-> TRUE,  message |-> Msg_NoConv],
            [isError |-> TRUE,  message |-> Msg_sessionGone],
            [isError |-> TRUE,  message |-> Msg_RateLimit],
            [isError |-> TRUE,  message |-> Msg_SessionCap],
            [isError |-> FALSE, message |-> Msg_boom] }
NoError == [isError |-> FALSE, message |-> << >>]

\* String(error): "Error: <message>" for an Error, the string itself otherwise.
StringOf(e) == IF e.isError THEN Chr_Error \o e.message ELSE e.message

\* s.includes(p)
includes(s, p) ==
  \E i \in 1..(Len(s) - Len(p) + 1) : SubSeq(s, i, i + Len(p) - 1) = p

\* The dead-session test of queryV2's catch block.
IsDeadSession(e) ==
  \/ includes(StringOf(e), Txt_session)
  \/ includes(StringOf(e), Txt_closed)
  \/ includes(StringOf(e), Txt_NoConv)

\* error instanceof Error ? error.message : String(error)
MessageOf(e) == IF e.isError THEN e.message ELSE StringOf(e)

\* new Error(`Anthropic V2 query failed: ${...}`)
WrapV2(e) == [isError |-> TRUE, message |-> Txt_V2Prefix \o MessageOf(e)]

\* new Error(`Anthropic query failed: ${...}`)
WrapV1(e) == [isError |-> TRUE, message |-> Txt_V1Prefix \o MessageOf(e)]

\* ------------------------------------------------------------------ state
VARIABLES
  activeSessions,     \* [Keys -> session object | NoSession]
  sessionLocks,       \* [Keys -> lock promise | NoLock]
  resolvedLocks,      \* the lock promises that have been resolved
  cleanupIntervalId,  \* TRUE while the sweep timer is scheduled
  sweepDue,           \* the timer has expired and its callback has not run yet
  now,                \* Date.now()
  sess,               \* the ActiveSession objects, by identity
  call,               \* the queryV2 calls (async generators)
  createCalls,        \* [Keys -> number of create-or-resume calls made]
  removals,           \* [Keys -> number of registry entries deleted]
  query1,             \* a call of the V1 query method
  injections,         \* number of messages sendToActiveSession has sent
  processEnv,         \* process.env
  env0,               \* process.env as it was at module load
  client,             \* the constructed AnthropicClient instances
  validation,         \* the validateCredentials calls
  retry,              \* a call of retryWithBackoff
  modelCache,         \* the model cache: NoCache or [models, fetchedAt]
  anthropicProvider,  \* the provider's supportedModels and defaultModel
  dcall,              \* the discoverModels calls
  costCall            \* the last computeCost call and its result

sessionVars == <<activeSessions, sessionLocks, resolvedLocks, cleanupIntervalId,
                 sweepDue, now, sess, call, createCalls, removals, query1,
                 injections>>
envVars     == <<processEnv, env0, client, validation>>
discoverVars == <<modelCache, anthropicProvider, dcall>>
libVars     == <<retry, discoverVars, costCall>>
vars        == <<activeSessions, sessionLocks, resolvedLocks, cleanupIntervalId,
                 sweepDue, now, sess, call, createCalls, removals, query1,
                 injections, processEnv, env0, client, validation, retry,
                 modelCache, anthropicProvider, dcall, costCall>>

\* A session object is identified by the call that created it; a lock promise
\* by the call that created it; a response stream by the call that opened it.
ObjIds == Calls

\* interface ActiveSession, plus what happened to the SDK handle.
FreshObject ==
  [ alloc           |-> FALSE,
    lastMessageAt   |-> 0,
    streaming       |-> FALSE,
    streamGenerator |-> 0,        \* 0 = null, else the stream of that call
    sessionId       |-> "null",   \* SDK session id: opts.resume || null
    closedBy        |-> "none",   \* who called session.close(), if anyone
    closeThrew      |-> FALSE ]   \* ... and it threw

IdleCall ==
  [ pc       |-> "idle",
    key      |-> "k1",
    resume   |-> FALSE,
    active   |-> NoSession,   \* the `active` local of queryV2
    waitOn   |-> NoLock,      \* the existingLock being awaited
    ret      |-> NoSession,   \* what fn() returned inside withSessionLock
    failedAt |-> "none",      \* where the upstream error hit: create/send/stream
    cause    |-> NoError,     \* the upstream error
    outcome  |-> "none",      \* returned / thrown / abandoned
    thrown   |-> NoError,     \* what the caller's next() rejected with
    nmsgs    |-> 0,
    delivered |-> << >>,      \* the messages the stream has delivered
    yielded   |-> << >> ]     \* the messages the generator has yielded

\* The messages of the upstream stream of query(), as far as the relay is
\* concerned: their type and the usage they carry.
Messages ==
  { [type |-> "assistant", hasUsage |-> TRUE,  input_tokens |-> 2, output_tokens |-> 1],
    [type |-> "assistant", hasUsage |-> TRUE,  input_tokens |-> 1, output_tokens |-> 3],
    [type |-> "assistant", hasUsage |-> FALSE, input_tokens |-> 0, output_tokens |-> 0],
    [type |-> "result",    hasUsage |-> TRUE,  input_tokens |-> 4, output_tokens |-> 4],
    [type |-> "system",    hasUsage |-> FALSE, input_tokens |-> 0, output_tokens |-> 0] }

\* The upstream streams: every sequence of at most MaxRelay messages.
Upstreams == UNION {[1..n -> Messages] : n \in 0..MaxRelay}

\* A call of query(): streaming until the upstream stream ends or throws.
IdleQuery ==
  [ pc |-> "idle", upstream |-> << >>, yielded |-> << >>,
    totalInputTokens |-> 0, totalOutputTokens |-> 0,
    cause |-> NoError, outcome |-> "none", thrown |-> NoError ]

\* What one relayed message adds to the token totals of the cost summary.
UsageOfAnyType(m) ==
  IF m.hasUsage
  THEN [input_tokens |-> m.input_tokens, output_tokens |-> m.output_tokens]
  ELSE [input_tokens |-> 0, output_tokens |-> 0]

UsageOf(m) ==
  IF m.type = "assistant" /\ m.hasUsage
  THEN [input_tokens |-> m.input_tokens, output_tokens |-> m.output_tokens]
  ELSE [input_tokens |-> 0, output_tokens |-> 0]

\* The synthesized record that closes the stream of query().
CostMetadata(q) ==
  [ type |-> "cost_metadata",
    input_tokens |-> q.totalInputTokens,
    output_tokens |-> q.totalOutputTokens ]

\* session_id values an upstream message may carry ("null": it carries none)
MsgSessionIds == {"null", "sidA", "sidB"}
ResumeId == "resumeId"

\* ------------------------------------------------------------------- Init
\* Module load: empty maps, startCleanupInterval() has run (index.ts:445).
InitSessions ==
  /\ activeSessions = [k \in Keys |-> NoSession]
  /\ sessionLocks = [k \in Keys |-> NoLock]
  /\ resolvedLocks = {}
  /\ cleanupIntervalId = TRUE
  /\ sweepDue = FALSE
  /\ now = 0
  /\ sess = [o \in ObjIds |-> FreshObject]
  /\ call = [c \in Calls |-> IdleCall]
  /\ createCalls = [k \in Keys |-> 0]
  /\ removals = [k \in Keys |-> 0]
  /\ query1 = IdleQuery
  /\ injections = 0

\* ------------------------------------------------------- read-only methods
\* hasActiveSession(sessionKey): !!active && active.streaming
hasActiveSession(k) ==
  activeSessions[k] # NoSession /\ sess[activeSessions[k]].streaming

\* getActiveSessionStream(sessionKey): the stream handle, or 0 for null
getActiveSessionStream(k) ==
  IF activeSessions[k] = NoSession \/ sess[activeSessions[k]].streamGenerator = 0
  THEN 0
  ELSE sess[activeSessions[k]].streamGenerator

\* ------------------------------------------------------------- queryV2
\* A continuation that the event loop will run before any timer callback.
MicrotaskPending ==
  \E c \in Calls :
     \/ call[c].pc \in {"inLock", "acquired"}
     \/ call[c].pc = "waitLock" /\ call[c].waitOn \in resolvedLocks

\* queryV2 lines 581-586: bump lastMessageAt, set streaming, call send().
\* `rec` is the call's record so far, `o` the session it uses.
BeginStreaming(c, rec, o) ==
  /\ sess' = [sess EXCEPT ![o].lastMessageAt = now, ![o].streaming = TRUE]
  /\ call' = [call EXCEPT ![c] = [rec EXCEPT !.pc = "sending", !.active = o,
                                            !.waitOn = NoLock, !.ret = NoSession]]

\* The locked section without its double-check: it creates and registers a
\* session whatever the registry holds.
EnterSectionWithoutDoubleCheck(c, rec, e) ==
  LET k == rec.key IN
  /\ sessionLocks' = [sessionLocks EXCEPT ![k] = c]
  /\ createCalls' = [createCalls EXCEPT ![k] = @ + 1]
  /\ IF e = NoError
     THEN /\ sess' = [sess EXCEPT ![c] =
                       [FreshObject EXCEPT
                          !.alloc = TRUE,
                          !.sessionId = IF rec.resume THEN ResumeId ELSE "null",
                          !.lastMessageAt = now]]
          /\ activeSessions' = [activeSessions EXCEPT ![k] = c]
          /\ call' = [call EXCEPT ![c] = [rec EXCEPT !.pc = "inLock", !.ret = c]]
     ELSE /\ call' = [call EXCEPT ![c] =
                        [rec EXCEPT !.pc = "inLock", !.failedAt = "create",
                                    !.cause = e]]
          /\ UNCHANGED <<activeSessions, sess>>

\* The body of withSessionLock after the wait: take the lock and run fn(),
\* which is synchronous up to its return (double-check, create, register).
\* `e` is what unstable_v2_createSession / unstable_v2_resumeSession does:
\* NoError = it returns a session, otherwise it throws e.
EnterSection(c, rec, e) ==
  LET k == rec.key IN
  /\ sessionLocks' = [sessionLocks EXCEPT ![k] = c]
  /\ IF activeSessions[k] # NoSession
     THEN \* "Session already created by concurrent call"
          /\ e = NoError
          /\ call' = [call EXCEPT ![c] =
                        [rec EXCEPT !.pc = "inLock", !.ret = activeSessions[k]]]
          /\ UNCHANGED <<activeSessions, sess, createCalls>>
     ELSE /\ createCalls' = [createCalls EXCEPT ![k] = @ + 1]
          /\ IF e = NoError
             THEN /\ sess' = [sess EXCEPT ![c] =
                               [FreshObject EXCEPT
                                  !.alloc = TRUE,
                                  !.sessionId = IF rec.resume THEN ResumeId ELSE "null",
                                  !.lastMessageAt = now]]
                  /\ activeSessions' = [activeSessions EXCEPT ![k] = c]
                  /\ call' = [call EXCEPT ![c] =
                                [rec EXCEPT !.pc = "inLock", !.ret = c]]
             ELSE /\ call' = [call EXCEPT ![c] =
                                [rec EXCEPT !.pc = "inLock", !.failedAt = "create",
                                            !.cause = e]]
                  /\ UNCHANGED <<activeSessions, sess>>

\* Start without the lookups: every call creates and registers a session.
StartWithoutLookup(c, k, r, e) ==
  /\ call[c].pc = "idle"
  /\ \A d \in Calls : d < c => call[d].pc # "idle"
  /\ e = NoError
  /\ sessionLocks' = [sessionLocks EXCEPT ![k] = c]
  /\ createCalls' = [createCalls EXCEPT ![k] = @ + 1]
  /\ sess' = [sess EXCEPT ![c] = [FreshObject EXCEPT !.alloc = TRUE,
                                                     !.lastMessageAt = now]]
  /\ activeSessions' = [activeSessions EXCEPT ![k] = c]
  /\ call' = [call EXCEPT ![c] = [call[c] EXCEPT !.key = k, !.resume = r,
                                                  !.pc = "inLock", !.ret = c]]
  /\ UNCHANGED <<resolvedLocks, cleanupIntervalId, sweepDue, now>>
  /\ UNCHANGED <<removals, query1, injections, envVars, libVars>>

\* The first next() on the generator: lines 513-522 and, when no lock is
\* held, the locked section up to `await fn()`.
Start(c, k, r, e) ==
  /\ call[c].pc = "idle"
  /\ \A d \in Calls : d < c => call[d].pc # "idle"
  /\ LET rec == [call[c] EXCEPT !.key = k, !.resume = r] IN
     IF activeSessions[k] # NoSession
     THEN /\ e = NoError
          /\ BeginStreaming(c, rec, activeSessions[k])
          /\ UNCHANGED <<activeSessions, sessionLocks, createCalls>>
     ELSE IF sessionLocks[k] # NoLock
     THEN /\ e = NoError
          /\ call' = [call EXCEPT ![c] =
                        [rec EXCEPT !.pc = "waitLock", !.waitOn = sessionLocks[k]]]
          /\ UNCHANGED <<activeSessions, sessionLocks, sess, createCalls>>
     ELSE EnterSection(c, rec, e)
  /\ UNCHANGED <<resolvedLocks, cleanupIntervalId, sweepDue, now>>
  /\ UNCHANGED <<removals, query1, injections, envVars, libVars>>

\* `await existingLock` returns: the awaited promise has been resolved.
AfterWait(c, e) ==
  /\ call[c].pc = "waitLock"
  /\ call[c].waitOn \in resolvedLocks
  /\ EnterSection(c, call[c], e)
  /\ UNCHANGED <<resolvedLocks, cleanupIntervalId, sweepDue, now>>
  /\ UNCHANGED <<removals, query1, injections, envVars, libVars>>

\* A finally block that leaves the lock in the map.
ReleaseLockNever(locks, k, c) == locks

\* sessionLocks after the finally block of withSessionLock run by call c
ReleaseLock(locks, k, c) ==
  IF locks[k] = c THEN [locks EXCEPT ![k] = NoLock] ELSE locks

\* A finally block that deletes the lock only when the section threw.
ExitSectionKeepingLock(c) ==
  /\ call[c].pc = "inLock"
  /\ resolvedLocks' = resolvedLocks \cup {c}
  /\ sessionLocks' = IF call[c].failedAt = "create"
                     THEN ReleaseLock(sessionLocks, call[c].key, c)
                     ELSE sessionLocks
  /\ call' = [call EXCEPT ![c].pc = "acquired"]
  /\ UNCHANGED <<activeSessions, cleanupIntervalId, sweepDue, now, sess, createCalls>>
  /\ UNCHANGED <<removals, query1, injections, envVars, libVars>>

\* `await fn()` returns: the finally block of withSessionLock.
ExitSection(c) ==
  /\ call[c].pc = "inLock"
  /\ resolvedLocks' = resolvedLocks \cup {c}
  /\ sessionLocks' = ReleaseLock(sessionLocks, call[c].key, c)
  /\ call' = [call EXCEPT ![c].pc = "acquired"]
  /\ UNCHANGED <<activeSessions, cleanupIntervalId, sweepDue, now, sess, createCalls>>
  /\ UNCHANGED <<removals, query1, injections, envVars, libVars>>

\* `await withSessionLock(...)` returns in queryV2: it rethrows what the
\* section threw (outside the try block), or goes on to lines 581-586.
Proceed(c) ==
  /\ call[c].pc = "acquired"
  /\ IF call[c].failedAt = "create"
     THEN /\ call' = [call EXCEPT ![c].pc = "done", ![c].outcome = "thrown",
                                   ![c].thrown = call[c].cause]
          /\ UNCHANGED sess
     ELSE BeginStreaming(c, call[c], call[c].ret)
  /\ UNCHANGED <<activeSessions, sessionLocks, resolvedLocks, cleanupIntervalId,
                 sweepDue, now, createCalls>>
  /\ UNCHANGED <<removals, query1, injections, envVars, libVars>>

\* The catch block of queryV2 (lines 606-620) as it leaves the call: a
\* dead-session error ends the generator normally, any other error is
\* rethrown wrapped.
CatchResult(rec, where, e) ==
  IF IsDeadSession(e)
  THEN [rec EXCEPT !.pc = "done", !.failedAt = where, !.cause = e,
                   !.outcome = "returned"]
  ELSE [rec EXCEPT !.pc = "done", !.failedAt = where, !.cause = e,
                   !.outcome = "thrown", !.thrown = WrapV2(e)]

\* A catch block that leaves the registry alone.
CatchRegistryKept(reg, k) == reg

\* activeSessions.delete(sessionKey), done in both branches of the catch block
CatchRegistry(reg, k) == [reg EXCEPT ![k] = NoSession]

\* The count of deletions after the entries of `reg` became those of `reg2`.
CountRemoved(reg, reg2) ==
  [k \in Keys |-> removals[k] + (IF reg[k] # NoSession /\ reg2[k] = NoSession
                                 THEN 1 ELSE 0)]

\* A catch block that empties the whole registry.
CatchEmptyingRegistry(c, where, e) ==
  LET o == call[c].active IN
  /\ sess' = [sess EXCEPT ![o].streaming = FALSE, ![o].streamGenerator = 0]
  /\ activeSessions' = [k \in Keys |-> NoSession]
  /\ removals' = CountRemoved(activeSessions, activeSessions')
  /\ call' = [call EXCEPT ![c] = CatchResult(call[c], where, e)]

\* The catch block: clear the flags of the call's session, delete the key.
Catch(c, where, e) ==
  LET o == call[c].active IN
  /\ sess' = [sess EXCEPT ![o].streaming = FALSE, ![o].streamGenerator = 0]
  /\ activeSessions' = CatchRegistry(activeSessions, call[c].key)
  /\ removals' = CountRemoved(activeSessions, activeSessions')
  /\ call' = [call EXCEPT ![c] = CatchResult(call[c], where, e)]

\* `await active.session.send(opts.prompt)` resolves: open the stream.
SendOk(c) ==
  /\ call[c].pc = "sending"
  /\ sess' = [sess EXCEPT ![call[c].active].streamGenerator = c]
  /\ call' = [call EXCEPT ![c].pc = "streaming"]
  /\ UNCHANGED <<activeSessions, sessionLocks, resolvedLocks, cleanupIntervalId,
                 sweepDue, now, createCalls>>
  /\ UNCHANGED <<removals, query1, injections, envVars, libVars>>

\* `await active.session.send(opts.prompt)` rejects with e.
SendFail(c, e) ==
  /\ call[c].pc = "sending"
  /\ Catch(c, "send", e)
  /\ UNCHANGED <<sessionLocks, resolvedLocks, cleanupIntervalId, sweepDue, now,
                 createCalls>>
  /\ UNCHANGED <<query1, injections, envVars, libVars>>

\* A capture that takes the id of every message that carries one.
CaptureSessionIdLatest(cur, sid) == IF sid # "null" THEN sid ELSE cur

\* active.sessionId after a message carrying session_id sid (lines 595-597)
CaptureSessionId(cur, sid) == IF sid # "null" /\ cur = "null" THEN sid ELSE cur

\* The stream delivers a message: capture the session id, yield the message.
StreamMsg(c, sid) ==
  /\ call[c].pc = "streaming"
  /\ call[c].nmsgs < MaxMsgs
  /\ sess' = [sess EXCEPT ![call[c].active].sessionId = CaptureSessionId(@, sid)]
  /\ call' = [call EXCEPT ![c].pc = "yielded", ![c].nmsgs = @ + 1,
                          ![c].delivered = Append(@, sid),
                          ![c].yielded = Append(@, sid)]
  /\ UNCHANGED <<activeSessions, sessionLocks, resolvedLocks, cleanupIntervalId,
                 sweepDue, now, createCalls>>
  /\ UNCHANGED <<removals, query1, injections, envVars, libVars>>

\* The consumer asks for the next message: the loop awaits the stream again.
ConsumerNext(c) ==
  /\ call[c].pc = "yielded"
  /\ call' = [call EXCEPT ![c].pc = "streaming"]
  /\ UNCHANGED <<activeSessions, sessionLocks, resolvedLocks, cleanupIntervalId,
                 sweepDue, now, sess, createCalls>>
  /\ UNCHANGED <<removals, query1, injections, envVars, libVars>>

\* The consumer abandons the generator at a yield (break / return()): the
\* generator is finished there; queryV2 has no finally block.
ConsumerReturn(c) ==
  /\ call[c].pc = "yielded"
  /\ call' = [call EXCEPT ![c].pc = "done", ![c].outcome = "abandoned"]
  /\ UNCHANGED <<activeSessions, sessionLocks, resolvedLocks, cleanupIntervalId,
                 sweepDue, now, sess, createCalls>>
  /\ UNCHANGED <<removals, query1, injections, envVars, libVars>>

\* A completion that drops the session from the registry.
StreamEndDropsSession(c) ==
  /\ call[c].pc = "streaming"
  /\ sess' = [sess EXCEPT ![call[c].active].streaming = FALSE,
                          ![call[c].active].streamGenerator = 0]
  /\ activeSessions' = [activeSessions EXCEPT ![call[c].key] = NoSession]
  /\ call' = [call EXCEPT ![c].pc = "done", ![c].outcome = "returned"]
  /\ UNCHANGED <<sessionLocks, resolvedLocks, cleanupIntervalId,
                 sweepDue, now, createCalls>>
  /\ UNCHANGED <<removals, query1, injections, envVars, libVars>>

\* The stream is exhausted (lines 602-604).
StreamEnd(c) ==
  /\ call[c].pc = "streaming"
  /\ sess' = [sess EXCEPT ![call[c].active].streaming = FALSE,
                          ![call[c].active].streamGenerator = 0]
  /\ call' = [call EXCEPT ![c].pc = "done", ![c].outcome = "returned"]
  /\ UNCHANGED <<activeSessions, sessionLocks, resolvedLocks, cleanupIntervalId,
                 sweepDue, now, createCalls>>
  /\ UNCHANGED <<removals, query1, injections, envVars, libVars>>

\* The stream throws e.
StreamFail(c, e) ==
  /\ call[c].pc = "streaming"
  /\ Catch(c, "stream", e)
  /\ UNCHANGED <<sessionLocks, resolvedLocks, cleanupIntervalId, sweepDue, now,
                 createCalls>>
  /\ UNCHANGED <<query1, injections, envVars, libVars>>

\* ---------------------------------------------------------------- query
\* query(): the options are built and the upstream query is started; `up`
\* is what the upstream stream will deliver.
QueryStart(up) ==
  /\ query1.pc = "idle"
  /\ query1' = [query1 EXCEPT !.pc = "streaming", !.upstream = up]
  /\ UNCHANGED <<activeSessions, sessionLocks, resolvedLocks, cleanupIntervalId,
                 sweepDue, now, sess, call, createCalls, removals, injections>>
  /\ UNCHANGED <<envVars, libVars>>

\* The upstream stream delivers its next message: `yield msg` (line 676).
QueryMsg ==
  /\ query1.pc = "streaming"
  /\ Len(query1.yielded) < Len(query1.upstream)
  /\ query1' = [query1 EXCEPT
                  !.yielded = Append(@, query1.upstream[Len(query1.yielded) + 1])]
  /\ UNCHANGED <<activeSessions, sessionLocks, resolvedLocks, cleanupIntervalId,
                 sweepDue, now, sess, call, createCalls, removals, injections>>
  /\ UNCHANGED <<envVars, libVars>>

\* query() with cost reporting: the message is relayed and its usage is added
\* to the totals.
CostQueryMsg ==
  /\ query1.pc = "streaming"
  /\ Len(query1.yielded) < Len(query1.upstream)
  /\ LET msg == query1.upstream[Len(query1.yielded) + 1]
     IN query1' = [query1 EXCEPT
                     !.yielded = Append(@, msg),
                     !.totalInputTokens = @ + UsageOf(msg).input_tokens,
                     !.totalOutputTokens = @ + UsageOf(msg).output_tokens]
  /\ UNCHANGED <<activeSessions, sessionLocks, resolvedLocks, cleanupIntervalId,
                 sweepDue, now, sess, call, createCalls, removals, injections>>
  /\ UNCHANGED <<envVars, libVars>>

\* query() with cost reporting: the upstream stream ends, the cost_metadata
\* record is yielded and the generator returns.
CostQueryEnd ==
  /\ query1.pc = "streaming"
  /\ Len(query1.yielded) = Len(query1.upstream)
  /\ query1' = [query1 EXCEPT !.pc = "done", !.outcome = "returned",
                              !.yielded = Append(@, CostMetadata(query1))]
  /\ UNCHANGED <<activeSessions, sessionLocks, resolvedLocks, cleanupIntervalId,
                 sweepDue, now, sess, call, createCalls, removals, injections>>
  /\ UNCHANGED <<envVars, libVars>>

\* The upstream stream ends: the generator returns.
QueryEnd ==
  /\ query1.pc = "streaming"
  /\ Len(query1.yielded) = Len(query1.upstream)
  /\ query1' = [query1 EXCEPT !.pc = "done", !.outcome = "returned"]
  /\ UNCHANGED <<activeSessions, sessionLocks, resolvedLocks, cleanupIntervalId,
                 sweepDue, now, sess, call, createCalls, removals, injections>>
  /\ UNCHANGED <<envVars, libVars>>

\* The upstream query throws e: the catch block (lines 678-681) rethrows it
\* wrapped.
QueryFail(e) ==
  /\ query1.pc = "streaming"
  /\ query1' = [query1 EXCEPT !.pc = "done", !.cause = e, !.outcome = "thrown",
                              !.thrown = WrapV1(e)]
  /\ UNCHANGED <<activeSessions, sessionLocks, resolvedLocks, cleanupIntervalId,
                 sweepDue, now, sess, call, createCalls, removals, injections>>
  /\ UNCHANGED <<envVars, libVars>>

\* ------------------------------------------------- the other session methods
Txt_NoActive == <<"N","o"," ","a","c","t","i","v","e"," ",
                   "s","e","s","s","i","o","n"," ","f","o","r"," ","k","e","y",":"," ">>

\* What sendToActiveSession(k) throws before it touches anything: an Error
\* naming the key when nothing is registered, else nothing.
SendToActiveSessionError(k) ==
  IF activeSessions[k] = NoSession
  THEN [isError |-> TRUE, message |-> Txt_NoActive \o <<k>>]
  ELSE NoError

\* An injection that sends without recording the time.
InjectWithoutTouch(s, t) == s

\* Session s after sendToActiveSession at time t: lastMessageAt is set, the
\* message goes out on the session's handle.
Inject(s, t) == [s EXCEPT !.lastMessageAt = t]

\* sendToActiveSession: throws when nothing is registered, else bumps
\* lastMessageAt and sends.
SendToActiveSession(k) ==
  /\ IF activeSessions[k] = NoSession
     THEN UNCHANGED <<sess, injections>>
     ELSE /\ injections < MaxInjects
          /\ sess' = [sess EXCEPT ![activeSessions[k]] = Inject(@, now)]
          /\ injections' = injections + 1
  /\ UNCHANGED <<activeSessions, sessionLocks, resolvedLocks, cleanupIntervalId,
                 sweepDue, now, call, createCalls>>
  /\ UNCHANGED <<removals, query1, envVars, libVars>>

\* session.close() inside try/catch: the handle is closed whether or not
\* close() throws.
CloseHandle(s, by, threw) == [s EXCEPT !.closedBy = by, !.closeThrew = threw]

\* A closeSession whose delete is skipped when close() throws.
CloseSessionRegistryUnlessThrow(reg, k, threw) ==
  IF threw THEN reg ELSE [reg EXCEPT ![k] = NoSession]

\* The registry after closeSession: the delete follows the try/catch
\* around close(), so it runs whether or not close() threw.
CloseSessionRegistry(reg, k, threw) == [reg EXCEPT ![k] = NoSession]

\* closeSession(sessionKey); `threw` tells whether close() throws.  With
\* nothing registered the method does nothing.
CloseSession(k, threw) ==
  /\ IF activeSessions[k] = NoSession
     THEN /\ ~threw
          /\ UNCHANGED <<sess, activeSessions, removals>>
     ELSE /\ sess' = [sess EXCEPT ![activeSessions[k]] =
                                     CloseHandle(@, "closeSession", threw)]
          /\ activeSessions' = CloseSessionRegistry(activeSessions, k, threw)
          /\ removals' = CountRemoved(activeSessions, activeSessions')
  /\ UNCHANGED <<sessionLocks, resolvedLocks, cleanupIntervalId, sweepDue, now,
                 call, createCalls>>
  /\ UNCHANGED <<query1, injections, envVars, libVars>>

\* ------------------------------------------------------ the sweep timer
\* A staleness test that forgets the streaming flag.
IsStaleByAgeOnly(s, t) == t - s.lastMessageAt > SESSION_TIMEOUT_MS

\* The test of the sweep callback (line 387) on session s at time t.
IsStale(s, t) == t - s.lastMessageAt > SESSION_TIMEOUT_MS /\ ~s.streaming

\* The keys whose session passes the test of the sweep callback.
SweepVictims ==
  {k \in Keys : activeSessions[k] # NoSession /\ IsStale(sess[activeSessions[k]], now)}

\* A sweep whose loop is ended by the first close() that throws.
SweepEvictedUntilThrow(throwers) == IF throwers = {} THEN SweepVictims ELSE {}

\* The keys the sweep callback closes and deletes when close() throws on
\* `throwers`: the try/catch around close() keeps the loop going.
SweepEvicted(throwers) == SweepVictims

\* Time passes by one timer period; the timer, when scheduled, expires.  A
\* timer callback runs only once no continuation is pending.
Tick ==
  /\ now < MaxTicks * CLEANUP_INTERVAL_MS
  /\ ~sweepDue
  /\ ~MicrotaskPending
  /\ now' = now + CLEANUP_INTERVAL_MS
  /\ sweepDue' = cleanupIntervalId
  /\ UNCHANGED <<activeSessions, sessionLocks, resolvedLocks, cleanupIntervalId,
                 sess, call, createCalls>>
  /\ UNCHANGED <<removals, query1, injections, envVars, libVars>>

\* The setInterval callback (lines 384-397); close() throws on `throwers`.
Sweep(throwers) ==
  /\ sweepDue
  /\ cleanupIntervalId
  /\ ~MicrotaskPending
  /\ throwers \subseteq SweepVictims
  /\ sess' = [o \in ObjIds |->
               IF \E k \in SweepEvicted(throwers) : activeSessions[k] = o
               THEN CloseHandle(sess[o], "sweep", \E k \in throwers : activeSessions[k] = o)
               ELSE sess[o]]
  /\ activeSessions' = [k \in Keys |->
               IF k \in SweepEvicted(throwers) THEN NoSession ELSE activeSessions[k]]
  /\ removals' = CountRemoved(activeSessions, activeSessions')
  /\ sweepDue' = FALSE
  /\ UNCHANGED <<sessionLocks, resolvedLocks, cleanupIntervalId, now, call,
                 createCalls>>
  /\ UNCHANGED <<query1, injections, envVars, libVars>>

\* A shutdown whose loop is ended by the first close() that throws.
ShutdownClosedUntilThrow(throwers) ==
  IF throwers = {} THEN {k \in Keys : activeSessions[k] # NoSession} ELSE {}

\* The keys whose session stopCleanupAndCloseSessions closes when close()
\* throws on `throwers`: the try/catch around close() keeps the loop going.
ShutdownClosed(throwers) == {k \in Keys : activeSessions[k] # NoSession}

\* stopCleanupAndCloseSessions (plugin.shutdown); close() throws on `throwers`.
Shutdown(throwers) ==
  /\ throwers \subseteq {k \in Keys : activeSessions[k] # NoSession}
  /\ cleanupIntervalId' = FALSE
  /\ sweepDue' = FALSE
  /\ sess' = [o \in ObjIds |->
               IF \E k \in ShutdownClosed(throwers) : activeSessions[k] = o
               THEN CloseHandle(sess[o], "shutdown", \E k \in throwers : activeSessions[k] = o)
               ELSE sess[o]]
  /\ activeSessions' = [k \in Keys |-> NoSession]
  /\ removals' = CountRemoved(activeSessions, activeSessions')
  /\ sessionLocks' = [k \in Keys |-> NoLock]
  /\ UNCHANGED <<resolvedLocks, now, call, createCalls>>
  /\ UNCHANGED <<query1, injections, envVars, libVars>>

\* ------------------------------------------------- credentials, process.env
MaxClients     == 2    \* AnthropicClient instances constructed
MaxValidations == 2    \* validateCredentials calls made
Clients     == 1..MaxClients
Validations == 1..MaxValidations

\* An environment variable that is not set (no string has this character).
Unset == <<"<unset>">>

Txt_Prefix    == <<"s","k","-","a","n","t","-">>
Txt_undefined == <<"u","n","d","e","f","i","n","e","d">>
Key_A         == Txt_Prefix \o <<"A">>
Key_B         == Txt_Prefix \o <<"B">>
Key_Daemon    == Txt_Prefix \o <<"d">>
Key_File      == Txt_Prefix \o <<"f">>
Cred_Empty    == << >>
Cred_NoDash   == <<"s","k","-","a","n","t">>
Cred_Other    == <<"k","e","y">>

\* The options a caller may hand to the constructor: a gateway base URL
\* and a tenant token, each possibly missing.
Url_Https   == <<"h","t","t","p","s",":","/","/","g","w">>
Url_Http    == <<"h","t","t","p",":","/","/","e","v","i","l">>
Url_Invalid == <<"n","o","t","-","a","-","u","r","l">>
Tenant_Token == <<"t","o","k","e","n">>
NoOptions == [baseUrl |-> Unset, tenantToken |-> Unset]
ClientOptions ==
  [baseUrl : {Unset, Url_Https, Url_Http, Url_Invalid},
   tenantToken : {Unset, Tenant_Token}]

\* The credentials a caller may hand in.
Credentials == {Key_A, Key_B, Cred_Empty, Cred_NoDash, Cred_Other}

\* s.startsWith(p)
startsWithAsFarAsItGoes(s, p) ==
  \A i \in 1..Len(p) : i <= Len(s) => s[i] = p[i]

startsWith(s, p) == Len(s) >= Len(p) /\ SubSeq(s, 1, Len(p)) = p

\* What getAuth() finds in the credential files.
AuthStates == { [type |-> "none",    secret |-> Unset],
                [type |-> "oauth",   secret |-> <<"t","o","k">>],
                [type |-> "api_key", secret |-> Key_File] }

\* Assigning v to a property of process.env: the value is converted to a
\* string, so assigning undefined stores the string "undefined".
EnvAssign(v) == IF v = Unset THEN Txt_undefined ELSE v

\* process.env.ANTHROPIC_API_KEY after the constructor (lines 450-466) ran
\* with this credential and this getAuth() result.
ConstructorKey(credential, auth) ==
  IF credential # Cred_Empty /\ startsWith(credential, Txt_Prefix)
  THEN EnvAssign(credential)
  ELSE IF auth.type = "oauth" THEN Unset
  ELSE IF auth.type = "api_key" THEN EnvAssign(auth.secret)
  ELSE Unset

\* The API key the instance is meant to use: its own credential, else the
\* key of the auth file, else none (OAuth).
OwnKey(credential, auth) ==
  IF credential # Cred_Empty /\ startsWith(credential, Txt_Prefix) THEN credential
  ELSE IF auth.type = "api_key" THEN auth.secret
  ELSE Unset

NoClient ==
  [ made |-> FALSE, ownKey |-> Unset, calls |-> 0, callKey |-> Unset,
    options |-> NoOptions,    \* the options the constructor was given
    callBaseUrl |-> Unset ]   \* ANTHROPIC_BASE_URL its upstream call ran with

IdleValidation ==
  [ pc         |-> "idle",
    credential |-> Cred_Empty,
    hasCreds   |-> FALSE,     \* what hasCredentials() returned, when called
    oldKey     |-> Unset,     \* the oldKey local
    probes     |-> 0,         \* upstream probe calls made
    envOption  |-> Unset,     \* ANTHROPIC_API_KEY of the probe's env option
    probeKey   |-> Unset,     \* ANTHROPIC_API_KEY the probe ran with
    result     |-> "none" ]

\* new AnthropicClient(credential, options): lines 450-468.  The options
\* are stored and never read.
Construct(cl, credential, auth, options) ==
  /\ ~client[cl].made
  /\ \A d \in Clients : d < cl => client[d].made
  /\ processEnv' = [processEnv EXCEPT
                      !.ANTHROPIC_API_KEY = ConstructorKey(credential, auth)]
  /\ client' = [client EXCEPT ![cl] =
                  [NoClient EXCEPT !.made = TRUE, !.ownKey = OwnKey(credential, auth),
                                   !.options = options]]
  /\ UNCHANGED <<env0, validation>>
  /\ UNCHANGED <<sessionVars, libVars>>

\* The key an upstream call runs with: the SDK call is given no env option
\* (lines 323-329, 665), so it runs with process.env as it is at that moment.
UpstreamKey(envOption) ==
  IF envOption # Unset THEN envOption ELSE processEnv.ANTHROPIC_API_KEY

\* An upstream call of a client (query, queryV2 creation, healthCheck).
ClientCall(cl) ==
  /\ client[cl].made
  /\ client[cl].calls < 1
  /\ client' = [client EXCEPT ![cl].calls = @ + 1, ![cl].callKey = UpstreamKey(Unset),
                              ![cl].callBaseUrl = processEnv.ANTHROPIC_BASE_URL]
  /\ UNCHANGED <<processEnv, env0, validation>>
  /\ UNCHANGED <<sessionVars, libVars>>

\* process.env.ANTHROPIC_API_KEY while the probe of validateCredentials runs
\* (lines 321-322)
ProbeEnv(credential) == EnvAssign(credential)

\* validateCredentials up to its first suspension: the two early returns
\* (lines 313-319), or the probe is started (lines 321-330).
ValidateStart(v, credential, hasCreds) ==
  /\ validation[v].pc = "idle"
  /\ \A w \in Validations : w < v => validation[w].pc # "idle"
  /\ IF credential = Cred_Empty
     THEN /\ validation' = [validation EXCEPT ![v] =
                [@ EXCEPT !.pc = "done", !.credential = credential,
                          !.hasCreds = hasCreds,
                          !.result = IF hasCreds THEN "true" ELSE "false"]]
          /\ UNCHANGED processEnv
     ELSE IF ~startsWith(credential, Txt_Prefix)
     THEN /\ validation' = [validation EXCEPT ![v] =
                [@ EXCEPT !.pc = "done", !.credential = credential,
                          !.result = "false"]]
          /\ UNCHANGED processEnv
     ELSE /\ processEnv' = [processEnv EXCEPT
                              !.ANTHROPIC_API_KEY = ProbeEnv(credential)]
          /\ validation' = [validation EXCEPT ![v] =
                [@ EXCEPT !.pc = "probing", !.credential = credential,
                          !.oldKey = processEnv.ANTHROPIC_API_KEY,
                          !.probes = @ + 1,
                          !.envOption = Unset,
                          !.probeKey = ProbeEnv(credential)]]
  /\ UNCHANGED <<env0, client>>
  /\ UNCHANGED <<sessionVars, libVars>>

\* The probe stream ends without error: restore oldKey, return true
\* (lines 330-332).
ValidateOk(v) ==
  /\ validation[v].pc = "probing"
  /\ processEnv' = [processEnv EXCEPT
                      !.ANTHROPIC_API_KEY = EnvAssign(validation[v].oldKey)]
  /\ validation' = [validation EXCEPT ![v].pc = "done", ![v].result = "true"]
  /\ UNCHANGED <<env0, client>>
  /\ UNCHANGED <<sessionVars, libVars>>

\* The probe throws: the catch block returns false (lines 333-336).
ValidateFail(v) ==
  /\ validation[v].pc = "probing"
  /\ validation' = [validation EXCEPT ![v].pc = "done", ![v].result = "false"]
  /\ UNCHANGED <<processEnv, env0, client>>
  /\ UNCHANGED <<sessionVars, libVars>>

\* ------------------------------------------------------- retryWithBackoff
\* The errors an operation may reject with: status 0 stands for an error
\* without a status property.
Txt_ECONNRESET == <<"E","C","O","N","N","R","E","S","E","T">>
Err_429   == [status |-> 429, message |-> <<"r","a","t","e"," ","l","i","m","i","t","e","d">>]
Err_503   == [status |-> 503, message |-> <<"u","n","a","v","a","i","l","a","b","l","e">>]
Err_Reset == [status |-> 0,   message |-> Txt_ECONNRESET]
Err_401   == [status |-> 401, message |-> <<"u","n","a","u","t","h","o","r","i","z","e","d">>]
Err_Other == [status |-> 0,   message |-> <<"b","o","o","m">>]
NoRetryError == [status |-> 0, message |-> << >>]
RetryErrors == {Err_429, Err_503, Err_Reset, Err_401, Err_Other}

\* What one invocation of the operation does: resolve with a value or reject.
AttemptOutcomes ==
  {[ok |-> TRUE, value |-> "ok", error |-> NoRetryError]} \cup
  {[ok |-> FALSE, value |-> "", error |-> e] : e \in RetryErrors}

\* The delays retryWithBackoff may be given.
BaseDelays == {1, 1000}

IdleRetry ==
  [ pc |-> "idle", maxRetries |-> 0, baseDelayMs |-> 0,
    outcomes |-> << >>,     \* what each invocation of the operation did
    timer |-> 0,            \* the delay being waited
    delays |-> << >>,       \* the delays waited so far
    warnings |-> << >>,     \* the delay each logged warning names
    outcome |-> "none", result |-> "", thrown |-> NoRetryError ]

\* The classification of a thrown error.
IsRetryableAnyStatus(e) ==
  \/ e.status # 0
  \/ includes(e.message, Txt_ECONNRESET)

IsRetryable(e) ==
  \/ e.status \in {429, 503}
  \/ includes(e.message, Txt_ECONNRESET)

\* Attempts remain after `attempt` failed (attempt 0 is the initial one).
MayRetryOnceMore(attempt, maxRetries) == attempt <= maxRetries

MayRetry(attempt, maxRetries) == attempt < maxRetries

RECURSIVE Exp2(_)
Exp2(n) == IF n = 0 THEN 1 ELSE 2 * Exp2(n - 1)

\* The wait after attempt `attempt` failed.
BackoffDelayConstant(baseDelayMs, attempt) == baseDelayMs

BackoffDelay(baseDelayMs, attempt) == baseDelayMs * Exp2(attempt)

\* retryWithBackoff(operation, {maxRetries, baseDelayMs}, logger) is called.
RetryStart(mr, bd) ==
  /\ retry.pc = "idle"
  /\ retry' = [retry EXCEPT !.pc = "attempting", !.maxRetries = mr,
                            !.baseDelayMs = bd]
  /\ UNCHANGED <<sessionVars, envVars, discoverVars, costCall>>

\* The operation is invoked and settles with `o`.
RetryAttempt(o) ==
  /\ retry.pc = "attempting"
  /\ LET attempt == Len(retry.outcomes)
         rec == [retry EXCEPT !.outcomes = Append(@, o)]
     IN IF o.ok
        THEN retry' = [rec EXCEPT !.pc = "done", !.outcome = "returned",
                                  !.result = o.value]
        ELSE IF IsRetryable(o.error) /\ MayRetry(attempt, retry.maxRetries)
        THEN LET delay == BackoffDelay(retry.baseDelayMs, attempt)
             IN retry' = [rec EXCEPT !.pc = "waiting", !.timer = delay,
                                     !.warnings = Append(@, delay)]
        ELSE retry' = [rec EXCEPT !.pc = "done", !.outcome = "thrown",
                                  !.thrown = o.error]
  /\ UNCHANGED <<sessionVars, envVars, discoverVars, costCall>>

\* The delay is over: the next attempt starts.
RetryDelayElapsed ==
  /\ retry.pc = "waiting"
  /\ retry' = [retry EXCEPT !.pc = "attempting", !.timer = 0,
                            !.delays = Append(@, retry.timer)]
  /\ UNCHANGED <<sessionVars, envVars, discoverVars, costCall>>

\* ---------------------------------------------------------- discoverModels
DCalls == 1..MaxDiscover
\* modelCache is null
NoCache == [present |-> FALSE, models |-> << >>, fetchedAt |-> 0]

\* Prices are USD per million tokens.
Model_Opus    == [id |-> "claude-opus-4-6", legacy |-> FALSE,
                  inputPrice |-> 5, outputPrice |-> 25]
Model_Haiku   == [id |-> "claude-haiku-4-5-20251001", legacy |-> FALSE,
                  inputPrice |-> 1, outputPrice |-> 5]
Model_Sonnet4 == [id |-> "claude-sonnet-4-20250514", legacy |-> TRUE,
                  inputPrice |-> 3, outputPrice |-> 15]
Model_NoId    == [id |-> "", legacy |-> FALSE,
                  inputPrice |-> 0, outputPrice |-> 0]

FALLBACK_MODEL_IDS ==
  << "claude-opus-4-6", "claude-sonnet-4-5-20250929", "claude-haiku-4-5-20251001",
     "claude-sonnet-4-20250514", "claude-opus-4-5-20251101" >>

\* The hardcoded fallback list of the catch block.
FallbackModelsPriced ==
  [i \in DOMAIN FALLBACK_MODEL_IDS |->
     [id |-> FALLBACK_MODEL_IDS[i], legacy |-> FALSE,
      inputPrice |-> 3, outputPrice |-> 15]]

FallbackModels ==
  [i \in DOMAIN FALLBACK_MODEL_IDS |->
     [id |-> FALLBACK_MODEL_IDS[i], legacy |-> FALSE,
      inputPrice |-> 0, outputPrice |-> 0]]

\* models.map((m) => m.id)
IdsOf(models) == [i \in DOMAIN models |-> models[i].id]

\* What the extraction query answers: whether the text holds a bracketed
\* array, whether JSON.parse accepts it, and the entries it parses to.
Responses ==
  { [hasArray |-> FALSE, wellFormed |-> TRUE,  entries |-> << >>],
    [hasArray |-> TRUE,  wellFormed |-> FALSE, entries |-> << >>],
    [hasArray |-> TRUE,  wellFormed |-> TRUE,  entries |-> << >>],
    [hasArray |-> TRUE,  wellFormed |-> TRUE,  entries |-> <<Model_Opus, Model_NoId>>],
    [hasArray |-> TRUE,  wellFormed |-> TRUE,  entries |-> <<Model_Sonnet4, Model_Haiku>>],
    [hasArray |-> TRUE,  wellFormed |-> TRUE,  entries |-> <<Model_Sonnet4>>] }

\* Parsing and validation that do not look at the entries' ids.
ExtractionErrorSkipsIds(r) ==
  IF ~r.hasArray THEN "No JSON array in Haiku response"
  ELSE IF ~r.wellFormed THEN "SyntaxError"
  ELSE IF Len(r.entries) = 0 THEN "Empty or invalid model array"
  ELSE ""

\* The error the parsing and validation steps throw on a response, "" when
\* they throw none.
ExtractionError(r) ==
  IF ~r.hasArray THEN "No JSON array in Haiku response"
  ELSE IF ~r.wellFormed THEN "SyntaxError"
  ELSE IF Len(r.entries) = 0 THEN "Empty or invalid model array"
  ELSE IF \E i \in DOMAIN r.entries : r.entries[i].id = ""
       THEN "Invalid model entry: missing id"
  ELSE ""

IdleDiscover ==
  [ pc |-> "idle",
    entryCache |-> NoCache,   \* modelCache as it was when the call started
    fetched |-> FALSE,        \* the call has called fetch()
    extracted |-> FALSE,      \* the call has started the extraction query
    warned |-> FALSE,         \* the call has logged a warning
    error |-> "",             \* the message of the error the call has caught
    source |-> "none",        \* where the returned list came from
    returned |-> << >> ]

\* The fresh-cache test.
IsFreshInclusive(cache, t) == cache # NoCache /\ t - cache.fetchedAt <= MODEL_CACHE_TTL

IsFresh(cache, t) == cache # NoCache /\ t - cache.fetchedAt < MODEL_CACHE_TTL

\* discoverModels() is called: a fresh cache is returned at once, otherwise
\* fetch() is called.
DiscoverStart(d) ==
  /\ dcall[d].pc = "idle"
  /\ IF IsFresh(modelCache, now)
     THEN dcall' = [dcall EXCEPT ![d] = [@ EXCEPT !.pc = "done",
                      !.entryCache = modelCache, !.source = "cache",
                      !.returned = modelCache.models]]
     ELSE dcall' = [dcall EXCEPT ![d] = [@ EXCEPT !.pc = "fetching",
                      !.entryCache = modelCache, !.fetched = TRUE]]
  /\ UNCHANGED <<modelCache, anthropicProvider, retry, costCall, sessionVars, envVars>>

\* What the catch block returns.
CatchReturnsFallback(cache) ==
  [source |-> "fallback", returned |-> FallbackModels]

CatchReturns(cache) ==
  IF cache # NoCache
  THEN [source |-> "stale", returned |-> cache.models]
  ELSE [source |-> "fallback", returned |-> FallbackModels]

\* The catch block: warn, then the stale cache or the fallback list.
DiscoverCatch(d, message) ==
  /\ dcall' = [dcall EXCEPT ![d] = [@ EXCEPT !.pc = "done", !.warned = TRUE,
                  !.error = message,
                  !.source = CatchReturns(modelCache).source,
                  !.returned = CatchReturns(modelCache).returned]]
  /\ UNCHANGED <<modelCache, anthropicProvider>>

\* fetch() settles: rejected, answered with a status that is not ok, or
\* answered ok, and then the extraction query is started.
FetchSettled(d, outcome) ==
  /\ dcall[d].pc = "fetching"
  /\ CASE outcome = "rejected" -> DiscoverCatch(d, "fetch failed")
       [] outcome = "status"   -> DiscoverCatch(d, "HTTP 500")
       [] outcome = "ok" ->
            /\ dcall' = [dcall EXCEPT ![d] = [@ EXCEPT !.pc = "extracting",
                                                       !.extracted = TRUE]]
            /\ UNCHANGED <<modelCache, anthropicProvider>>
  /\ UNCHANGED <<retry, costCall, sessionVars, envVars>>

\* The extraction query throws.
ExtractThrows(d) ==
  /\ dcall[d].pc = "extracting"
  /\ DiscoverCatch(d, "query failed")
  /\ UNCHANGED <<retry, costCall, sessionVars, envVars>>

\* The cache after a refresh that found `models` at time t.
RefreshedCacheMerged(cache, models, t) ==
  [ present |-> TRUE,
    models |-> models \o SelectSeq(cache.models,
                          LAMBDA m : \A i \in DOMAIN models : models[i].id # m.id),
    fetchedAt |-> t ]

RefreshedCache(cache, models, t) ==
  [present |-> TRUE, models |-> models, fetchedAt |-> t]

\* The extraction query ends with response r: parse, validate, then cache
\* the models and update the provider.
ExtractSettled(d, r) ==
  /\ dcall[d].pc = "extracting"
  /\ IF ExtractionError(r) # ""
     THEN DiscoverCatch(d, ExtractionError(r))
     ELSE LET models == r.entries
              currentModels == SelectSeq(models, LAMBDA m : ~m.legacy)
          IN /\ modelCache' = RefreshedCache(modelCache, models, now)
             /\ anthropicProvider' =
                  [ supportedModels |-> IdsOf(models),
                    defaultModel |-> IF Len(currentModels) > 0
                                     THEN currentModels[1].id
                                     ELSE anthropicProvider.defaultModel ]
             /\ dcall' = [dcall EXCEPT ![d] = [@ EXCEPT !.pc = "done",
                             !.source = "refresh", !.returned = models]]
  /\ UNCHANGED <<retry, costCall, sessionVars, envVars>>

\* The caller has the list; the slot is free for another call.
DiscoverReturned(d) ==
  /\ dcall[d].pc = "done"
  /\ dcall' = [dcall EXCEPT ![d] = IdleDiscover]
  /\ UNCHANGED <<modelCache, anthropicProvider, retry, costCall, sessionVars, envVars>>

\* Half a cache lifetime passes; the cleanup timer, when scheduled, expires.
Elapse ==
  /\ now < MaxElapse * (MODEL_CACHE_TTL \div 2)
  /\ now' = now + MODEL_CACHE_TTL \div 2
  /\ sweepDue' = cleanupIntervalId
  /\ UNCHANGED <<activeSessions, sessionLocks, resolvedLocks, cleanupIntervalId,
                 sess, call, createCalls, removals, query1, injections>>
  /\ UNCHANGED <<envVars, libVars>>

InitRetry == retry = IdleRetry

InitDiscover ==
  /\ modelCache = NoCache
  /\ anthropicProvider = [ supportedModels |-> FALLBACK_MODEL_IDS,
                           defaultModel |-> FALLBACK_MODEL_IDS[1] ]
  /\ dcall = [d \in DCalls |-> IdleDiscover]

\* ------------------------------------------------------------- computeCost
\* The model ids and token counts computeCost is called with.
ModelIds == {Model_Sonnet4.id, Model_Haiku.id, Model_Opus.id, "unknown-model"}
TokenCounts == {0, 1, 500000, 1000000}

NoModel == [id |-> "", legacy |-> FALSE, inputPrice |-> 0, outputPrice |-> 0]

\* getDiscoveredModel(id): the cache entry with this id, null when there is
\* no cache or no such entry.
getDiscoveredModelOrFirst(cache, id) ==
  IF ~cache.present THEN NoModel
  ELSE IF \E i \in DOMAIN cache.models : cache.models[i].id = id
  THEN cache.models[CHOOSE i \in DOMAIN cache.models :
                      /\ cache.models[i].id = id
                      /\ \A j \in 1..(i - 1) : cache.models[j].id # id]
  ELSE cache.models[1]

getDiscoveredModel(cache, id) ==
  IF ~cache.present THEN NoModel
  ELSE IF \E i \in DOMAIN cache.models : cache.models[i].id = id
  THEN cache.models[CHOOSE i \in DOMAIN cache.models :
                      /\ cache.models[i].id = id
                      /\ \A j \in 1..(i - 1) : cache.models[j].id # id]
  ELSE NoModel

\* computeCost(modelId, inputTokens, outputTokens).  Prices are USD per
\* million tokens and the costs are counted in millionths of a USD, so that
\* price * tokens / 1_000_000 USD is the integer price * tokens.
computeCostInputPriceOnly(cache, modelId, inputTokens, outputTokens) ==
  LET model == getDiscoveredModel(cache, modelId)
      input == model.inputPrice * inputTokens
      output == model.inputPrice * outputTokens
  IN [input_cost_usd |-> input, output_cost_usd |-> output,
      total_cost_usd |-> input + output]

computeCost(cache, modelId, inputTokens, outputTokens) ==
  LET model == getDiscoveredModel(cache, modelId)
      input == model.inputPrice * inputTokens
      output == model.outputPrice * outputTokens
  IN [input_cost_usd |-> input, output_cost_usd |-> output,
      total_cost_usd |-> input + output]

NoCostCall ==
  [ called |-> FALSE, modelId |-> "", inputTokens |-> 0, outputTokens |-> 0,
    input_cost_usd |-> 0, output_cost_usd |-> 0, total_cost_usd |-> 0 ]

\* computeCost is called with the cache as it is.
ComputeCost(modelId, inputTokens, outputTokens) ==
  /\ LET r == computeCost(modelCache, modelId, inputTokens, outputTokens)
     IN costCall' = [ called |-> TRUE, modelId |-> modelId,
                      inputTokens |-> inputTokens, outputTokens |-> outputTokens,
                      input_cost_usd |-> r.input_cost_usd,
                      output_cost_usd |-> r.output_cost_usd,
                      total_cost_usd |-> r.total_cost_usd ]
  /\ UNCHANGED <<sessionVars, envVars, retry, discoverVars>>

InitCost == costCall = NoCostCall

InitLib == InitRetry /\ InitDiscover /\ InitCost

\* ------------------------------------------------------------------ Spec
\* The environment the process starts with.
InitEnvOf(key) ==
  /\ processEnv = [ANTHROPIC_API_KEY |-> key, ANTHROPIC_BASE_URL |-> Unset]
  /\ env0 = processEnv
  /\ client = [cl \in Clients |-> NoClient]
  /\ validation = [v \in Validations |-> IdleValidation]

Init == InitSessions /\ InitEnvOf(Unset) /\ InitLib

\* One dead-session error and one other error, for the specifications that
\* are not about the text of the error.
DeadError  == [isError |-> TRUE, message |-> Msg_SessionClosed]
PlainError == [isError |-> TRUE, message |-> Msg_RateLimit]

\* The steps of queryV2 calls C on keys K that never find a lock held: E the
\* errors the SDK may throw, S the session ids its messages may carry, R
\* whether a call may ask to resume.
CallOps(C, K, E, S, R) ==
  \/ \E c \in C, k \in K, r \in R, e \in E \cup {NoError} : Start(c, k, r, e)
  \/ \E c \in C : ExitSection(c)
  \/ \E c \in C : Proceed(c)
  \/ \E c \in C : SendOk(c)
  \/ \E c \in C, e \in E : SendFail(c, e)
  \/ \E c \in C, sid \in S : StreamMsg(c, sid)
  \/ \E c \in C : ConsumerNext(c)
  \/ \E c \in C : ConsumerReturn(c)
  \/ \E c \in C : StreamEnd(c)
  \/ \E c \in C, e \in E : StreamFail(c, e)

\* What the host calls on a session besides queryV2; T tells whether a
\* close() may throw.
HostOps(T) ==
  \/ \E k \in Keys : SendToActiveSession(k)
  \/ \E k \in Keys, threw \in T : CloseSession(k, threw)

\* closeSession alone.
CloseOps(T) == \E k \in Keys, threw \in T : CloseSession(k, threw)

\* Concurrent queryV2 calls on one key, at one instant of the clock.
Next ==
  \/ CallOps(Callers, {"k1"}, {DeadError, PlainError}, {"null"}, {FALSE})
  \/ \E c \in Callers, e \in {DeadError, PlainError, NoError} : AfterWait(c, e)
  \/ CloseOps({FALSE})

Spec == Init /\ [][Next]_vars

\* Calls that contend for the lock of one key: a create call may throw and
\* a failed send drops the session, so that later calls find no session.
NextLock ==
  \/ \E c \in Calls, r \in BOOLEAN, e \in {PlainError, NoError} :
        Start(c, "k1", r, e)
  \/ \E c \in Calls, e \in {PlainError, NoError} : AfterWait(c, e)
  \/ \E c \in Calls : ExitSection(c)
  \/ \E c \in Calls : Proceed(c)
  \/ \E c \in Calls : SendOk(c)
  \/ \E c \in Calls : SendFail(c, PlainError)
  \/ \E c \in Calls : StreamEnd(c)

SpecLock == Init /\ [][NextLock]_vars

\* The guarded section alone, under contention, with shutdown at any point.
NextLockShutdown ==
  \/ \E c \in Calls, e \in {PlainError, NoError} : Start(c, "k1", FALSE, e)
  \/ \E c \in Calls, e \in {PlainError, NoError} : AfterWait(c, e)
  \/ \E c \in Calls : ExitSection(c)
  \/ \E c \in Calls : Proceed(c)
  \/ Shutdown({})

SpecLockShutdown == Init /\ [][NextLockShutdown]_vars

\* Two calls and the injections on one key, through whole response streams.
NextStream ==
  \/ CallOps({1, 2}, {"k1"}, {PlainError}, {"null"}, {FALSE})
  \/ \E c \in {1, 2}, e \in {PlainError, NoError} : AfterWait(c, e)
  \/ SendToActiveSession("k1")

SpecStream == Init /\ [][NextStream]_vars

\* Two calls on one key, with or without resume, whose messages carry any
\* session id or none; nothing fails.
NextSessionId ==
  \/ \E c \in {1, 2}, r \in BOOLEAN : Start(c, "k1", r, NoError)
  \/ \E c \in {1, 2} : ExitSection(c)
  \/ \E c \in {1, 2} : Proceed(c)
  \/ \E c \in {1, 2} : SendOk(c)
  \/ \E c \in {1, 2}, sid \in MsgSessionIds : StreamMsg(c, sid)
  \/ \E c \in {1, 2} : ConsumerNext(c)
  \/ \E c \in {1, 2} : StreamEnd(c)

SpecSessionId == Init /\ [][NextSessionId]_vars

\* The key on which the host calls closeSession and sendToActiveSession.
HostKey == "k1"

\* Calls on either key, and the host's operations on one of the keys.
NextKeys ==
  \/ CallOps({1, 2}, Keys, {PlainError}, {"null", "sidA"}, {FALSE})
  \/ \E c \in {1, 2}, e \in {PlainError, NoError} : AfterWait(c, e)
  \/ SendToActiveSession(HostKey)
  \/ \E threw \in BOOLEAN : CloseSession(HostKey, threw)

SpecKeys == Init /\ [][NextKeys]_vars

\* The clock and the sweep timer, around one call per key.
NextSweep ==
  \/ Tick
  \/ \E th \in SUBSET Keys : Sweep(th)
  \/ CallOps({1}, {"k1"}, {PlainError}, {"null"}, {FALSE})
  \/ CallOps({2}, {"k2"}, {PlainError}, {"null"}, {FALSE})
  \/ \E k \in Keys : SendToActiveSession(k)

SpecSweep == Init /\ [][NextSweep]_vars

\* Shutdown at any point of one call per key, at one instant of the clock.
NextShutdown ==
  \/ CallOps({1}, {"k1"}, {PlainError}, {"null"}, {FALSE})
  \/ CallOps({2}, {"k2"}, {PlainError}, {"null"}, {FALSE})
  \/ HostOps(BOOLEAN)
  \/ \E th \in SUBSET Keys : Shutdown(th)

SpecShutdown == Init /\ [][NextShutdown]_vars

\* One call, every error text.
NextErrors ==
  \/ CallOps({1}, Keys, Errors, {"null"}, {FALSE})
  \/ QueryStart(<< >>)
  \/ QueryEnd
  \/ \E e \in Errors : QueryFail(e)
  \/ HostOps(BOOLEAN)
  \/ \E th \in SUBSET Keys : Shutdown(th)

SpecErrors == Init /\ [][NextErrors]_vars

\* The relay of upstream messages by query and by one queryV2 call.
NextRelay ==
  \/ \E up \in Upstreams : QueryStart(up)
  \/ QueryMsg
  \/ QueryEnd
  \/ QueryFail(PlainError)
  \/ CallOps({1}, {"k1"}, {PlainError}, {"null", "sidA"}, {FALSE})

SpecRelay == Init /\ [][NextRelay]_vars

\* query() with cost reporting over every upstream stream.
NextCost ==
  \/ \E up \in Upstreams : QueryStart(up)
  \/ CostQueryMsg
  \/ CostQueryEnd
  \/ QueryFail(PlainError)

SpecCost == Init /\ [][NextCost]_vars

\* One call of retryWithBackoff with every choice of options and of
\* outcomes of the operation.
NextRetry ==
  \/ \E mr \in 0..MaxRetryBudget, bd \in BaseDelays : RetryStart(mr, bd)
  \/ \E o \in AttemptOutcomes : RetryAttempt(o)
  \/ RetryDelayElapsed

SpecRetry == Init /\ [][NextRetry]_vars

\* Overlapping discoverModels calls while time passes.
NextDiscover ==
  \/ \E d \in DCalls : DiscoverStart(d)
  \/ \E d \in DCalls, outcome \in {"rejected", "status", "ok"} : FetchSettled(d, outcome)
  \/ \E d \in DCalls : ExtractThrows(d)
  \/ \E d \in DCalls, r \in Responses : ExtractSettled(d, r)
  \/ \E d \in DCalls : DiscoverReturned(d)
  \/ Elapse

SpecDiscover == Init /\ [][NextDiscover]_vars

\* computeCost called at any point of one discoverModels call after another.
NextPricing ==
  \/ DiscoverStart(1)
  \/ \E outcome \in {"rejected", "status", "ok"} : FetchSettled(1, outcome)
  \/ ExtractThrows(1)
  \/ \E r \in Responses : ExtractSettled(1, r)
  \/ DiscoverReturned(1)
  \/ Elapse
  \/ \E id \in ModelIds, it \in TokenCounts, ot \in TokenCounts : ComputeCost(id, it, ot)

SpecPricing == Init /\ [][NextPricing]_vars

\* process.env starts with no key or with the key of the daemon.
InitE == InitSessions /\ InitLib /\ \E key \in {Unset, Key_Daemon} : InitEnvOf(key)

\* Client instances constructed and used in any order.
NextClients ==
  \/ \E cl \in Clients, cr \in Credentials, au \in AuthStates :
        Construct(cl, cr, au, NoOptions)
  \/ \E cl \in Clients : ClientCall(cl)

SpecClients == InitE /\ [][NextClients]_vars

\* Client instances constructed with gateway options.
NextHosted ==
  \/ \E cl \in Clients, cr \in {Cred_Empty, Key_A}, o \in ClientOptions :
        Construct(cl, cr, [type |-> "none", secret |-> Unset], o)
  \/ \E cl \in Clients : ClientCall(cl)

SpecHosted == InitE /\ [][NextHosted]_vars

\* Concurrent credential validations.
NextValidate ==
  \/ \E v \in Validations, cr \in Credentials, hc \in BOOLEAN : ValidateStart(v, cr, hc)
  \/ \E v \in Validations : ValidateOk(v)
  \/ \E v \in Validations : ValidateFail(v)

SpecValidate == InitE /\ [][NextValidate]_vars

\* ================================================================ properties
\* A call that has started and has not ended.
InFlight(c) == call[c].pc \notin {"idle", "done"}

\* The create-or-resume calls on key k that threw.
FailedCreates(k) ==
  Cardinality({c \in Calls : call[c].key = k /\ call[c].failedAt = "create"})

\* Two calls on key k are in flight together and no entry of k was ever
\* deleted from the registry.
Concurrent(c, d, k) ==
  /\ c # d /\ InFlight(c) /\ InFlight(d)
  /\ call[c].key = k /\ call[d].key = k
  /\ removals[k] = 0

\* The two calls, where both hold a session, hold the same object.
SameSession(c, d) ==
  (call[c].active # NoSession /\ call[d].active # NoSession)
     => call[c].active = call[d].active

\* C1, as stated: two queryV2 calls in flight together on a key that had no
\* session make exactly one create-or-resume call in total and use the same
\* session object.  Violated: a create-or-resume call that throws is followed
\* by a second one, made by the caller that waited on the lock.
C1_ExactlyOneCreateCall ==
  \A k \in Keys : \A c, d \in Calls :
     Concurrent(c, d, k) => createCalls[k] = 1 /\ SameSession(c, d)

\* C1, amended: two queryV2 calls in flight together on a key that had no
\* session make at most one create-or-resume call that succeeds - a further
\* call is made only after one that threw - and the callers that get a
\* session use the same session object.
C1_OneSessionCreated ==
  \A k \in Keys : \A c, d \in Calls :
     Concurrent(c, d, k) =>
        /\ createCalls[k] >= 1
        /\ createCalls[k] <= FailedCreates(k) + 1
        /\ SameSession(c, d)

\* Two calls are mid-stream together on the one session created for the key.
C1_Witness ==
  /\ Concurrent(1, 2, "k1")
  /\ call[1].pc \in {"sending", "streaming", "yielded"}
  /\ call[2].pc \in {"sending", "streaming", "yielded"}
  /\ call[1].active = call[2].active
  /\ createCalls["k1"] = 1

\* C2: constructing clients leaves process.env as it was at module load, and
\* the upstream calls of a client that has a credential of its own run with
\* that credential, whatever other clients were constructed.
C2_ClientsIsolated ==
  /\ processEnv = env0
  /\ \A cl \in Clients :
        (client[cl].calls > 0 /\ client[cl].ownKey # Unset)
           => client[cl].callKey = client[cl].ownKey

\* C3: validateCredentials hands the credential to the probe in the probe's
\* env option and leaves process.env.ANTHROPIC_API_KEY as it was, while the
\* probe runs and after it succeeded or failed, also with validations
\* running concurrently.
C3_ValidationLeavesEnv ==
  /\ processEnv.ANTHROPIC_API_KEY = env0.ANTHROPIC_API_KEY
  /\ \A v \in Validations :
        validation[v].probes > 0
           => validation[v].envOption = validation[v].credential

\* C4: a queryV2 call that failed with a dead-session error ended by
\* throwing an error that carries the text of the underlying error; the
\* failure is not swallowed.
C4_DeadSessionErrorSurfaces ==
  \A c \in Calls :
     (call[c].pc = "done" /\ call[c].failedAt # "none" /\ IsDeadSession(call[c].cause))
        => /\ call[c].outcome = "thrown"
           /\ includes(call[c].thrown.message, call[c].cause.message)

\* C5: a query call whose upstream call failed threw "Anthropic query
\* failed: " followed by the original message, and a queryV2 call whose
\* upstream call failed with an error that is not a dead-session error threw
\* "Anthropic V2 query failed: " followed by the original message.
C5_FailureWrapped ==
  /\ (query1.pc = "done" /\ query1.cause # NoError)
        => /\ query1.outcome = "thrown"
           /\ query1.thrown.message = Txt_V1Prefix \o query1.cause.message
  /\ \A c \in Calls :
        (call[c].pc = "done" /\ call[c].failedAt # "none" /\ ~IsDeadSession(call[c].cause))
           => /\ call[c].outcome = "thrown"
              /\ call[c].thrown.message = Txt_V2Prefix \o call[c].cause.message

\* Call c ended because send() or the stream failed.
FailedMidStream(c) == call[c].pc = "done" /\ call[c].failedAt \in {"send", "stream"}

\* C6: the step in which a queryV2 call fails during send or streaming leaves
\* no session registered for its key; a call that starts on that key
\* afterwards never takes the session of the failed call, and when it finds
\* no session and no lock it makes exactly one create-or-resume call.
C6_FailedSessionDropped ==
  [][ /\ \A c \in Calls :
           (call[c].pc # "done" /\ call'[c].pc = "done"
              /\ call'[c].failedAt \in {"send", "stream"})
              => activeSessions'[call[c].key] = NoSession
      /\ \A c, d \in Calls :
           (FailedMidStream(c) /\ call[d].pc = "idle" /\ call'[d].pc # "idle"
              /\ call'[d].key = call[c].key)
              => /\ call'[d].active # call[c].active
                 /\ call'[d].ret # call[c].active
                 /\ (activeSessions[call[c].key] = NoSession
                       /\ sessionLocks[call[c].key] = NoLock)
                      => createCalls'[call[c].key] = createCalls[call[c].key] + 1
    ]_vars

\* The first call failed on a dead session and the second call, started
\* after it, streams on a session of its own.
C6_Witness ==
  /\ FailedMidStream(1) /\ IsDeadSession(call[1].cause)
  /\ call[2].pc = "sending" /\ call[2].active = 2 /\ call[1].active = 1
  /\ activeSessions["k1"] = 2
  /\ createCalls["k1"] = 2

\* A call that began to send or stream and neither completed nor failed.
Unfinished(c) ==
  \/ call[c].pc \in {"sending", "streaming", "yielded"}
  \/ call[c].pc = "done" /\ call[c].outcome = "abandoned"

\* C7: hasActiveSession(k) is true exactly when a session is registered for
\* k and some queryV2 call on that session began to send or stream and has
\* neither completed nor failed - also when two calls overlap on the session
\* and one of them finishes first.
C7_StreamingFlagTracksCalls ==
  \A k \in Keys :
     hasActiveSession(k) <=>
        /\ activeSessions[k] # NoSession
        /\ \E c \in Calls : call[c].active = activeSessions[k] /\ Unfinished(c)

\* The step is a run of the sweep callback.
SweepStep == sweepDue /\ ~sweepDue' /\ cleanupIntervalId'

\* The session registered for k, in the state before the step.
Registered(k) == sess[activeSessions[k]]

\* C8: a run of the sweep leaves every session registered and untouched
\* that is streaming or whose lastMessageAt is at most 30 minutes old; and
\* lastMessageAt is set to the present time by every queryV2 prompt and by
\* every sendToActiveSession on a registered session.
C8_SweepSparesLiveSessions ==
  [][ /\ SweepStep =>
           \A k \in Keys :
              (activeSessions[k] # NoSession
                 /\ (Registered(k).streaming
                       \/ now - Registered(k).lastMessageAt <= 30 * 60 * 1000))
                 => /\ activeSessions'[k] = activeSessions[k]
                    /\ sess'[activeSessions[k]] = Registered(k)
      /\ \A c \in Calls :
           (call[c].pc # "sending" /\ call'[c].pc = "sending")
              => sess'[call'[c].active].lastMessageAt = now
      /\ \A k \in Keys :
           (SendToActiveSession(k) /\ activeSessions[k] # NoSession)
              => sess'[activeSessions[k]].lastMessageAt = now
    ]_vars

\* The sweep has run at the present time and left two sessions registered:
\* one that is streaming and went more than 30 minutes without a send, and
\* one that is not streaming and whose last send was exactly 30 minutes ago.
C8_Witness ==
  /\ cleanupIntervalId /\ ~sweepDue /\ now > 0
  /\ \E k, j \in Keys :
        /\ activeSessions[k] # NoSession /\ activeSessions[j] # NoSession
        /\ Registered(k).streaming
        /\ now - Registered(k).lastMessageAt > 30 * 60 * 1000
        /\ ~Registered(j).streaming
        /\ now - Registered(j).lastMessageAt = 30 * 60 * 1000

\* C9: a run of the sweep closes and unregisters every registered session
\* that is not streaming and whose last send is more than 30 minutes old,
\* whether or not a close() throws; while the timer is scheduled the clock
\* never moves more than 5 minutes without the sweep becoming due, and never
\* moves past a sweep that is due.
C9_SweepEvictsStaleSessions ==
  [][ /\ SweepStep =>
           \A k \in Keys :
              (activeSessions[k] # NoSession
                 /\ ~Registered(k).streaming
                 /\ now - Registered(k).lastMessageAt > 30 * 60 * 1000)
                 => /\ activeSessions'[k] = NoSession
                    /\ sess'[activeSessions[k]].closedBy = "sweep"
      /\ (now' # now /\ cleanupIntervalId)
            => now' - now <= 5 * 60 * 1000 /\ sweepDue' /\ ~sweepDue
    ]_vars

\* One run of the sweep evicted two sessions, and close() threw on one.
C9_Witness ==
  \E a, b \in ObjIds :
     /\ sess[a].closedBy = "sweep" /\ sess[a].closeThrew
     /\ sess[b].closedBy = "sweep" /\ ~sess[b].closeThrew
     /\ sess[a].lastMessageAt = sess[b].lastMessageAt
     /\ now = sess[a].lastMessageAt + 35 * 60 * 1000
     /\ \A k \in Keys : activeSessions[k] = NoSession

\* Neither map has an entry.
MapsEmpty(reg, locks) ==
  \A k \in Keys : reg[k] = NoSession /\ locks[k] = NoLock

\* C10: a shutdown step stops the timer, calls close() on every session that
\* was registered - whether or not a close() throws - and leaves the
\* registry and the lock map empty; a shutdown in a state that is already
\* shut down changes nothing.
C10_ShutdownClearsEverything ==
  [][ (\E th \in SUBSET Keys : Shutdown(th)) =>
        /\ ~cleanupIntervalId' /\ ~sweepDue'
        /\ MapsEmpty(activeSessions', sessionLocks')
        /\ \A k \in Keys :
              activeSessions[k] # NoSession
                 => sess'[activeSessions[k]].closedBy = "shutdown"
        /\ (~cleanupIntervalId /\ MapsEmpty(activeSessions, sessionLocks))
              => UNCHANGED vars
    ]_vars

\* Shutdown hit one session mid-stream and one whose creation was still
\* inside the locked section; close() threw on one of the two.
C10_Witness ==
  /\ ~cleanupIntervalId /\ MapsEmpty(activeSessions, sessionLocks)
  /\ call[1].pc = "streaming" /\ call[2].pc = "inLock"
  /\ sess[1].closedBy = "shutdown" /\ sess[2].closedBy = "shutdown"
  /\ sess[1].closeThrew /\ ~sess[2].closeThrew

\* C11: a closeSession step on a registered key closes the session and
\* removes the entry, whether or not close() throws, and touches nothing
\* else; on an unregistered key - as after a first closeSession - it changes
\* nothing.
C11_CloseSessionIdempotent ==
  [][ \A k \in Keys :
        (\E threw \in BOOLEAN : CloseSession(k, threw)) =>
           /\ activeSessions'[k] = NoSession
           /\ \A j \in Keys \ {k} : activeSessions'[j] = activeSessions[j]
           /\ activeSessions[k] # NoSession =>
                 /\ sess'[activeSessions[k]].closedBy = "closeSession"
                 /\ \A o \in ObjIds \ {activeSessions[k]} : sess'[o] = sess[o]
                 /\ UNCHANGED <<sessionLocks, cleanupIntervalId, call>>
           /\ activeSessions[k] = NoSession => UNCHANGED vars
    ]_vars

\* closeSession hit a session mid-stream, close() threw, and the entry is
\* gone all the same.
C11_Witness ==
  /\ sess[1].closedBy = "closeSession" /\ sess[1].closeThrew
  /\ activeSessions["k1"] = NoSession
  /\ call[1].pc = "streaming" /\ call[1].active = 1

\* C12: a sendToActiveSession step on a key with nothing registered throws
\* the "No active session" error and changes nothing; on a registered key
\* it throws no such error, sets that session's lastMessageAt to the present
\* time, sends on that session, and touches no other session, nor the
\* registry, nor the lock map.
C12_SendToActiveSession ==
  [][ \A k \in Keys :
        SendToActiveSession(k) =>
           /\ activeSessions[k] = NoSession =>
                 /\ UNCHANGED vars
                 /\ SendToActiveSessionError(k).isError
                 /\ includes(SendToActiveSessionError(k).message,
                             <<"N","o"," ","a","c","t","i","v","e"," ",
                               "s","e","s","s","i","o","n">>)
           /\ activeSessions[k] # NoSession =>
                 /\ SendToActiveSessionError(k) = NoError
                 /\ sess'[activeSessions[k]] =
                       [Registered(k) EXCEPT !.lastMessageAt = now]
                 /\ injections' = injections + 1
                 /\ \A o \in ObjIds \ {activeSessions[k]} : sess'[o] = sess[o]
                 /\ UNCHANGED <<activeSessions, sessionLocks, call>>
    ]_vars

\* A message was injected into a session while its call, begun at an
\* earlier time, was streaming; the session carries the time of the
\* injection and the other session does not.
C12_Witness ==
  /\ activeSessions["k1"] = 1 /\ activeSessions["k2"] = 2
  /\ injections = 1 /\ now > 0 /\ sess[1].lastMessageAt = now
  /\ call[1].pc = "streaming" /\ call[1].active = 1
  /\ call[2].pc = "done" /\ sess[2].lastMessageAt = 0

\* The response stream of call c is in flight: obtained, and neither
\* completed, nor failed, nor abandoned.
StreamInFlight(c) == call[c].pc \in {"streaming", "yielded"}

\* C13: getActiveSessionStream(k) returns a stream exactly when a session is
\* registered for k and a response stream on that session is in flight, and
\* the stream it returns is one of those; it returns null before the first
\* stream is obtained and after every stream on the session has completed,
\* failed or been abandoned.
C13_StreamHandleInFlight ==
  \A k \in Keys :
     /\ getActiveSessionStream(k) # 0 <=>
           /\ activeSessions[k] # NoSession
           /\ \E c \in Calls : call[c].active = activeSessions[k] /\ StreamInFlight(c)
     /\ getActiveSessionStream(k) # 0 =>
           /\ call[getActiveSessionStream(k)].active = activeSessions[k]
           /\ StreamInFlight(getActiveSessionStream(k))

\* C14: what query has yielded is a prefix of the upstream stream, message
\* for message, and once query has returned it is the whole upstream stream
\* followed by exactly one cost_metadata record; what a queryV2 call has
\* yielded is what its stream has delivered, message for message.
C14_RelayThenCostMetadata ==
  /\ query1.pc = "streaming" =>
        /\ Len(query1.yielded) <= Len(query1.upstream)
        /\ query1.yielded = SubSeq(query1.upstream, 1, Len(query1.yielded))
  /\ (query1.pc = "done" /\ query1.outcome = "returned") =>
        /\ Len(query1.yielded) = Len(query1.upstream) + 1
        /\ SubSeq(query1.yielded, 1, Len(query1.upstream)) = query1.upstream
        /\ query1.yielded[Len(query1.yielded)].type = "cost_metadata"
  /\ \A c \in Calls : call[c].yielded = call[c].delivered

\* The sum of one usage field over the assistant messages of a stream that
\* carry a usage field.
RECURSIVE AssistantTokens(_, _)
AssistantTokens(ms, field) ==
  IF ms = << >> THEN 0
  ELSE (IF Head(ms).type = "assistant" /\ Head(ms).hasUsage
        THEN Head(ms)[field] ELSE 0) + AssistantTokens(Tail(ms), field)

Transient(e) ==
  \/ e.status = 429
  \/ e.status = 503
  \/ includes(e.message, Txt_ECONNRESET)

\* C16: retryWithBackoff invokes the operation at most maxRetries+1 times;
\* it stops at the first attempt that succeeds and returns its result; when
\* every attempt fails with a retryable error it makes exactly maxRetries+1
\* attempts and rethrows the last error unchanged.
C16_AtMostMaxRetriesPlusOneAttempts ==
  LET n == Len(retry.outcomes) IN
  /\ n <= retry.maxRetries + 1
  /\ \A i \in 1..(n - 1) : ~retry.outcomes[i].ok
  /\ (n > 0 /\ retry.outcomes[n].ok) =>
        /\ retry.pc = "done" /\ retry.outcome = "returned"
        /\ retry.result = retry.outcomes[n].value
  /\ retry.outcome = "returned" => retry.outcomes[n].ok
  /\ retry.outcome = "thrown" =>
        /\ retry.thrown = retry.outcomes[n].error
        /\ (\A i \in 1..n : Transient(retry.outcomes[i].error)) =>
              n = retry.maxRetries + 1

C16_Witness ==
  /\ retry.pc = "done" /\ retry.outcome = "thrown"
  /\ retry.maxRetries >= 2
  /\ Len(retry.outcomes) = retry.maxRetries + 1
  /\ \A i \in 1..Len(retry.outcomes) : Transient(retry.outcomes[i].error)

\* C17: before the (n+1)-th retry retryWithBackoff waits exactly
\* baseDelayMs * 2^n and logs one warning naming that delay: the delays are
\* baseDelayMs, 2*baseDelayMs, 4*baseDelayMs, ... and there are as many
\* warnings as retries.
C17_ExponentialDelays ==
  LET retries == Len(retry.delays) + (IF retry.pc = "waiting" THEN 1 ELSE 0) IN
  /\ \A i \in 1..Len(retry.delays) :
        retry.delays[i] = retry.baseDelayMs * 2^(i - 1)
  /\ Len(retry.warnings) = retries
  /\ \A i \in 1..Len(retry.warnings) :
        retry.warnings[i] = retry.baseDelayMs * 2^(i - 1)
  /\ retry.pc = "waiting" => retry.timer = retry.baseDelayMs * 2^(retries - 1)
  /\ retry.pc \in {"attempting", "done"} =>
        Len(retry.delays) = (IF retry.pc = "done" THEN Len(retry.outcomes) - 1
                             ELSE Len(retry.outcomes))

C17_Witness ==
  /\ retry.pc = "done"
  /\ retry.baseDelayMs = 1000
  /\ retry.delays = <<1000, 2000, 4000>>
  /\ retry.warnings = <<1000, 2000, 4000>>

\* C18: a failed attempt is followed by a retry iff its error has status 429
\* or 503 or a transient-network message and attempts remain; any other
\* error is raised at once, and when it is the first attempt's error there
\* has been no delay, no retry and no warning, whatever maxRetries is.
C18_RetriedIffTransient ==
  LET n == Len(retry.outcomes) IN
  /\ \A i \in 1..(n - 1) : Transient(retry.outcomes[i].error)
  /\ (retry.pc = "waiting") => Transient(retry.outcomes[n].error)
  /\ (n > 0 /\ ~retry.outcomes[n].ok /\ ~Transient(retry.outcomes[n].error)) =>
        /\ retry.pc = "done" /\ retry.outcome = "thrown"
        /\ retry.thrown = retry.outcomes[n].error
  /\ (n > 0 /\ ~retry.outcomes[1].ok /\ ~Transient(retry.outcomes[1].error)) =>
        /\ n = 1
        /\ retry.delays = << >>
        /\ retry.warnings = << >>
  /\ (retry.outcome = "thrown" /\ Transient(retry.thrown)) =>
        n = retry.maxRetries + 1

C18_Witness ==
  /\ retry.pc = "done" /\ retry.outcome = "thrown"
  /\ retry.maxRetries = MaxRetryBudget
  /\ retry.outcomes = <<[ok |-> FALSE, value |-> "", error |-> Err_401]>>
  /\ retry.thrown = Err_401
  /\ retry.warnings = << >>

\* The step in which call d of discoverModels starts.
DiscoverStarts(d) == dcall[d].pc = "idle" /\ dcall'[d].pc # "idle"

\* The step in which the refresh of call d fails.
RefreshFails(d) ==
  /\ dcall[d].pc \in {"fetching", "extracting"}
  /\ dcall'[d].pc = "done"
  /\ dcall'[d].source # "refresh"

\* C19: a discoverModels call made while now - fetchedAt < 24h returns the
\* cached list, calls neither fetch nor the extraction query and leaves the
\* cache as it is; a call made at 24h or later, or with no cache, calls
\* fetch.
C19_FreshCacheServedWithoutFetch ==
  [][\A d \in DCalls : DiscoverStarts(d) =>
       IF modelCache # NoCache /\ now - modelCache.fetchedAt < 24 * 60 * 60 * 1000
       THEN /\ dcall'[d].pc = "done"
            /\ dcall'[d].returned = modelCache.models
            /\ ~dcall'[d].fetched
            /\ ~dcall'[d].extracted
            /\ modelCache' = modelCache
       ELSE /\ dcall'[d].pc = "fetching"
            /\ dcall'[d].fetched]_vars

C19_Witness ==
  \E d \in DCalls :
     /\ dcall[d].pc = "done" /\ dcall[d].source = "cache"
     /\ now - modelCache.fetchedAt = MODEL_CACHE_TTL \div 2
     /\ dcall[d].returned = modelCache.models
     /\ ~dcall[d].fetched

\* C20 as stated: a call that started with a stale cache and whose refresh
\* failed has returned the models of that stale cache, has logged a warning
\* and has left the cache as it was.
C20_StaleCacheReturnedOnFailure ==
  \A d \in DCalls :
     (dcall[d].pc = "done" /\ dcall[d].entryCache # NoCache
        /\ dcall[d].source \in {"stale", "fallback"}) =>
        /\ dcall[d].returned = dcall[d].entryCache.models
        /\ dcall[d].warned

\* C20, amended: when the refresh of a call fails at any step and there is a
\* cache at that moment, the call returns the models of the cache as it is
\* then (the stale models unless an overlapping call has refreshed the cache
\* meanwhile), logs a warning, does not throw and leaves the cache as it is.
C20_CurrentCacheReturnedOnFailure ==
  [][\A d \in DCalls : (RefreshFails(d) /\ modelCache # NoCache) =>
       /\ dcall'[d].returned = modelCache.models
       /\ dcall'[d].source = "stale"
       /\ dcall'[d].warned
       /\ dcall'[d].error # ""
       /\ modelCache' = modelCache]_vars

C20_Witness ==
  \E d \in DCalls :
     /\ dcall[d].pc = "done" /\ dcall[d].source = "stale"
     /\ dcall[d].warned
     /\ dcall[d].entryCache # NoCache
     /\ dcall[d].returned = dcall[d].entryCache.models
     /\ modelCache = dcall[d].entryCache
     /\ now - modelCache.fetchedAt >= MODEL_CACHE_TTL
     /\ dcall[d].error = "Invalid model entry: missing id"

\* C21: when the refresh of a discoverModels call fails and there is no
\* cache, the call returns (it does not throw) the hardcoded fallback list,
\* whose entries all have input price 0 and output price 0, and the cache
\* stays empty, so that the next call fetches again.
C21_FallbackServedAndNotCached ==
  [][\A d \in DCalls : (RefreshFails(d) /\ modelCache = NoCache) =>
       /\ dcall'[d].source = "fallback"
       /\ [i \in DOMAIN dcall'[d].returned |-> dcall'[d].returned[i].id]
             = FALLBACK_MODEL_IDS
       /\ \A i \in DOMAIN dcall'[d].returned :
             /\ dcall'[d].returned[i].inputPrice = 0
             /\ dcall'[d].returned[i].outputPrice = 0
       /\ dcall'[d].warned
       /\ modelCache' = NoCache]_vars

C21_Witness ==
  \E d, d2 \in DCalls :
     /\ dcall[d].pc = "done" /\ dcall[d].source = "fallback"
     /\ Len(dcall[d].returned) = 5
     /\ modelCache = NoCache
     /\ dcall[d2].pc = "fetching" /\ d2 # d

\* The step in which the refresh of call d succeeds.
RefreshSucceeds(d) ==
  /\ dcall[d].pc = "extracting"
  /\ dcall'[d].pc = "done"
  /\ dcall'[d].source = "refresh"

\* C22: a successful refresh makes the cache the new list and nothing else,
\* with fetchedAt the present time, makes supportedModels the ids of the new
\* list in its order, and makes defaultModel the id of the first entry of
\* the new list that is not legacy (it keeps defaultModel when every entry
\* is legacy).
C22_CacheReplacedWholesale ==
  [][\A d \in DCalls : RefreshSucceeds(d) =>
       LET new == dcall'[d].returned
           current == {i \in DOMAIN new : ~new[i].legacy}
       IN /\ Len(new) > 0
          /\ modelCache'.present
          /\ modelCache'.models = new
          /\ modelCache'.fetchedAt = now
          /\ anthropicProvider'.supportedModels =
                [i \in DOMAIN new |-> new[i].id]
          /\ current # {} =>
                \E i \in current :
                   /\ \A j \in current : i <= j
                   /\ anthropicProvider'.defaultModel = new[i].id
          /\ current = {} =>
                anthropicProvider'.defaultModel = anthropicProvider.defaultModel]_vars

C22_Witness ==
  \E d \in DCalls :
     /\ dcall[d].pc = "done" /\ dcall[d].source = "refresh"
     /\ dcall[d].entryCache.present
     /\ dcall[d].entryCache.models = <<Model_Sonnet4>>
     /\ modelCache.models = <<Model_Sonnet4, Model_Haiku>>
     /\ modelCache.fetchedAt > dcall[d].entryCache.fetchedAt
     /\ anthropicProvider.supportedModels = <<Model_Sonnet4.id, Model_Haiku.id>>
     /\ anthropicProvider.defaultModel = Model_Haiku.id

\* The credential has the prefix of an API key.
HasKeyPrefix(cr) ==
  Len(cr) >= 7 /\ SubSeq(cr, 1, 7) = <<"s","k","-","a","n","t","-">>

\* C23 as stated: a validateCredentials call on a credential that does not
\* start with "sk-ant-" has returned false and has made no upstream call.
C23_NoPrefixRejected ==
  \A v \in Validations :
     (validation[v].pc # "idle" /\ ~HasKeyPrefix(validation[v].credential)) =>
        /\ validation[v].pc = "done"
        /\ validation[v].result = "false"
        /\ validation[v].probes = 0

\* C23, amended: a validateCredentials call on a credential that is not
\* empty and does not start with "sk-ant-" has returned false without an
\* upstream call; on the empty credential it has returned what
\* hasCredentials() returned, without an upstream call either.
C23_NoPrefixRejectedUnlessEmpty ==
  \A v \in Validations :
     (validation[v].pc # "idle" /\ ~HasKeyPrefix(validation[v].credential)) =>
        /\ validation[v].pc = "done"
        /\ validation[v].probes = 0
        /\ validation[v].credential # << >> => validation[v].result = "false"
        /\ validation[v].credential = << >> =>
              validation[v].result = (IF validation[v].hasCreds THEN "true" ELSE "false")

C23_Witness ==
  /\ validation[1].pc = "done" /\ validation[1].credential = Cred_NoDash
  /\ validation[1].result = "false" /\ validation[1].probes = 0
  /\ validation[2].pc = "done" /\ validation[2].credential = Cred_Empty
  /\ validation[2].result = "true" /\ validation[2].probes = 0

\* The client was constructed with a base URL and a tenant token.
Hosted(cl) ==
  /\ client[cl].options.baseUrl # Unset
  /\ client[cl].options.tenantToken # Unset

\* C24: a client constructed with both a baseUrl and a tenantToken makes its
\* upstream calls with that base URL and with the tenantToken as API key,
\* whatever credential it was given; a client constructed with either one
\* missing makes its calls with no base URL.
C24_HostedIffBaseUrlAndToken ==
  \A cl \in Clients :
     (client[cl].made /\ client[cl].calls > 0) =>
        IF Hosted(cl)
        THEN /\ client[cl].callBaseUrl = client[cl].options.baseUrl
             /\ client[cl].callKey = client[cl].options.tenantToken
        ELSE client[cl].callBaseUrl = Unset

\* C25: no client exists that was constructed in hosted-gateway mode with a
\* baseUrl that is not an https URL: the constructor threw.
C25_BadBaseUrlRejectedAtConstruction ==
  \A cl \in Clients :
     (client[cl].made /\ Hosted(cl)) =>
        /\ Len(client[cl].options.baseUrl) >= 8
        /\ SubSeq(client[cl].options.baseUrl, 1, 8) = <<"h","t","t","p","s",":","/","/">>

\* The entries of the cache with this id.
Cached(id) ==
  {i \in DOMAIN modelCache.models : modelCache.present /\ modelCache.models[i].id = id}

\* The step is a computeCost call.
CostStep == costCall' # costCall

\* C26: computeCost returns as input cost the input price of the model times
\* the input tokens, as output cost its output price times the output
\* tokens (per million tokens), and as total cost the sum of the two.
C26_CostIsPriceTimesTokens ==
  [][CostStep =>
       /\ costCall'.total_cost_usd =
             costCall'.input_cost_usd + costCall'.output_cost_usd
       /\ \A i \in Cached(costCall'.modelId) :
             (\A j \in Cached(costCall'.modelId) : i <= j) =>
                /\ costCall'.input_cost_usd =
                      modelCache.models[i].inputPrice * costCall'.inputTokens
                /\ costCall'.output_cost_usd =
                      modelCache.models[i].outputPrice * costCall'.outputTokens]_vars

C26_Witness ==
  /\ costCall.called
  /\ costCall.modelId = Model_Haiku.id
  /\ costCall.inputTokens = 1000000 /\ costCall.outputTokens = 500000
  /\ costCall.input_cost_usd = 1000000
  /\ costCall.output_cost_usd = 2500000
  /\ costCall.total_cost_usd = 3500000

\* C27: computeCost returns zero input, output and total cost for a model
\* id that is not in the cache, whatever the token counts; so it does
\* whenever there is no cache.
C27_ZeroCostForUnknownModel ==
  [][(CostStep /\ Cached(costCall'.modelId) = {}) =>
       /\ costCall'.input_cost_usd = 0
       /\ costCall'.output_cost_usd = 0
       /\ costCall'.total_cost_usd = 0]_vars

C27_Witness ==
  /\ costCall.called
  /\ modelCache.present
  /\ Cached(costCall.modelId) = {}
  /\ costCall.inputTokens = 1000000 /\ costCall.outputTokens = 1000000
  /\ costCall.total_cost_usd = 0


\* Call c is inside the section guarded by withSessionLock: it has set its
\* lock and its finally block has not run yet.
InSection(c) == call[c].pc = "inLock"

\* C28: at most one create-or-resume section guarded by withSessionLock is
\* in flight on a key at any time, however many calls contend for the key.
C28_OneSectionInFlight ==
  \A c, d \in Calls :
     (InSection(c) /\ InSection(d) /\ call[c].key = call[d].key) => c = d


\* C29: a create-or-resume call on key k is made, and a session is
\* registered under k, only in a state where no session is registered under
\* k; a registered session is only ever removed, never replaced; a queryV2
\* call that finds a session registered, at its start or in the double-check
\* after it waited for the lock, takes that session and makes no
\* create-or-resume call, whether or not it was asked to resume.
C29_RegisteredSessionNeverOverwritten ==
  [][ \A k \in Keys :
        /\ createCalls'[k] # createCalls[k] => activeSessions[k] = NoSession
        /\ activeSessions[k] # NoSession
              => activeSessions'[k] \in {activeSessions[k], NoSession}
        /\ \A c \in Calls :
              ( /\ activeSessions[k] # NoSession
                /\ call'[c].key = k
                /\ \/ call[c].pc = "idle" /\ call'[c].pc # "idle"
                   \/ call[c].pc = "waitLock" /\ call'[c].pc # "waitLock" )
              => /\ createCalls' = createCalls
                 /\ activeSessions' = activeSessions
                 /\ activeSessions[k] \in {call'[c].active, call'[c].ret}
    ]_vars

\* A call that asked to resume waited for the lock and found, in the
\* double-check, the session that another call had created meanwhile
\* without resuming, after the create call of the first lock holder threw:
\* it holds that session, and the two create calls are all there were.
C29_Witness ==
  \E c \in Calls :
     /\ call[c].resume /\ call[c].pc = "inLock" /\ call[c].waitOn # NoLock
     /\ call[c].ret \notin {NoSession, c}
     /\ activeSessions[call[c].key] = call[c].ret
     /\ sess[call[c].ret].sessionId = "null"
     /\ createCalls[call[c].key] = 2


\* Call c is sending its prompt or relaying its response stream.
Relaying(c) == call[c].pc \in {"sending", "streaming", "yielded"}

\* Call d starts on key k and has to wait for a lock.
StartAndWait(d, k) == Start(d, k, FALSE, NoError) /\ call'[d].pc = "waitLock"

\* C30: a queryV2 call that is sending its prompt or relaying its stream
\* holds no lock: the lock of its key is not its own and nobody waits for an
\* unresolved lock of its making, a waiting call waits only for a call that
\* is inside the guarded section; and while its session is registered,
\* sendToActiveSession goes through and the next queryV2 call starts on the
\* session without waiting.
C30_NoLockHeldWhileStreaming ==
  /\ \A c \in Calls : Relaying(c) => sessionLocks[call[c].key] # c
  /\ \A d \in Calls :
        call[d].pc = "waitLock"
           => call[d].waitOn \in resolvedLocks \/ InSection(call[d].waitOn)
  /\ \A c \in Calls :
        (Relaying(c) /\ activeSessions[call[c].key] = call[c].active)
           => /\ injections < MaxInjects => ENABLED SendToActiveSession(call[c].key)
              /\ \A d \in Calls :
                    (call[d].pc = "idle" /\ \A b \in 1..(d - 1) : call[b].pc # "idle")
                       => /\ ENABLED Start(d, call[c].key, FALSE, NoError)
                          /\ ~ENABLED StartAndWait(d, call[c].key)

\* A call that created its session under the lock is suspended at a yield
\* after relaying a message, its session still registered, while an
\* injection has been sent on the key and the other call is sending its
\* prompt on the same session.
C30_Witness ==
  \E c, d \in Calls :
     /\ call[c].pc = "yielded" /\ call[c].nmsgs >= 1
     /\ c \in resolvedLocks /\ call[c].active = c
     /\ activeSessions[call[c].key] = c
     /\ injections >= 1
     /\ d # c /\ call[d].pc = "sending" /\ call[d].active = c


\* The step is the normal completion of the stream of call c.
Completes(c) == call[c].pc = "streaming" /\ call'[c].pc = "done"
                   /\ call'[c].outcome = "returned" /\ call'[c].failedAt = "none"

\* C31: the step in which the stream of a queryV2 call completes normally
\* leaves its session with streaming = false and no stream handle, changes
\* nothing in the registry and makes no create-or-resume call; and a queryV2
\* call that starts on a key whose session is registered starts on that
\* session object, again without a create-or-resume call.
C31_CompletedSessionReused ==
  [][ \A c \in Calls :
        /\ Completes(c)
             => /\ ~sess'[call[c].active].streaming
                /\ sess'[call[c].active].streamGenerator = 0
                /\ activeSessions' = activeSessions
                /\ createCalls' = createCalls
        /\ (call[c].pc = "idle" /\ call'[c].pc # "idle"
              /\ activeSessions[call'[c].key] # NoSession)
             => /\ call'[c].active = activeSessions[call'[c].key]
                /\ activeSessions' = activeSessions
                /\ createCalls' = createCalls
    ]_vars

\* The stream of one call has completed and the other call, started after
\* that, is sending its prompt on the same session, still registered, the
\* only one ever created for the key.
C31_Witness ==
  \E c, d \in Calls :
     /\ call[c].pc = "done" /\ call[c].outcome = "returned" /\ call[c].nmsgs >= 1
     /\ call[c].failedAt = "none"
     /\ call[d].pc = "sending" /\ call[d].active = call[c].active
     /\ activeSessions[call[c].key] = call[c].active
     /\ sess[call[c].active].streaming
     /\ createCalls[call[c].key] = 1 /\ removals[call[c].key] = 0


\* C32: the session id of a session object is set at most once.  At creation
\* it is the resume id or null; it changes only from null, in a step that
\* relays a message, to the session_id that message carries; once it is not
\* null no step changes it, whatever later messages of any call carry.
C32_SessionIdSetOnce ==
  [][ \A o \in ObjIds :
        /\ (~sess[o].alloc /\ sess'[o].alloc)
              => sess'[o].sessionId = IF call'[o].resume THEN ResumeId ELSE "null"
        /\ (sess[o].alloc /\ sess[o].sessionId # "null")
              => sess'[o].sessionId = sess[o].sessionId
        /\ (sess[o].alloc /\ sess'[o].sessionId # sess[o].sessionId)
              => \E c \in Calls :
                    /\ call[c].active = o /\ call[c].pc = "streaming"
                    /\ call'[c].pc = "yielded"
                    /\ call'[c].delivered[Len(call'[c].delivered)] = sess'[o].sessionId
                    /\ sess'[o].sessionId # "null"
    ]_vars

\* A session took its id from the message of one call, and a message of
\* another call on the same session carried a different id afterwards.
C32_Witness ==
  \E c, d \in Calls :
     /\ c # d /\ call[c].active = call[d].active /\ call[c].active # NoSession
     /\ sess[call[c].active].sessionId = "sidA"
     /\ call[c].delivered = <<"sidA">> /\ call[d].delivered = <<"sidB">>


\* The extraction results that parsing and validation reject.
RejectedResults ==
  { "No JSON array in Haiku response", "SyntaxError",
    "Empty or invalid model array", "Invalid model entry: missing id" }

\* C33: a model cache that is not null holds a non-empty list whose entries
\* all have a non-empty id; and the step in which a call's extraction result
\* is rejected (no JSON array, unparsable, empty array, an entry without an
\* id) changes neither the cache nor supportedModels and defaultModel.
C33_CacheHoldsValidatedModels ==
  [][ /\ modelCache'.present
           => /\ Len(modelCache'.models) > 0
              /\ \A i \in DOMAIN modelCache'.models : modelCache'.models[i].id # ""
      /\ \A d \in DCalls :
           (dcall[d].pc = "extracting" /\ dcall'[d].pc = "done"
              /\ dcall'[d].error \in RejectedResults)
              => /\ modelCache' = modelCache
                 /\ anthropicProvider' = anthropicProvider
    ]_vars

\* With a list cached, a call has just had an extraction result rejected
\* for an entry without an id, and another one for an empty array.
C33_Witness ==
  \E d, d2 \in DCalls :
     /\ modelCache.present
     /\ dcall[d].pc = "done" /\ dcall[d].error = "Invalid model entry: missing id"
     /\ dcall[d2].pc = "done" /\ dcall[d2].error = "Empty or invalid model array"


\* What belongs to key k: its registry entry, its lock, the locks made for
\* it that have been resolved, the session objects created for it, and the
\* counts kept for it.
KeyState(k) ==
  << activeSessions[k], sessionLocks[k], createCalls[k], removals[k],
     {c \in resolvedLocks : call[c].key = k},
     [o \in {o \in ObjIds : call[o].pc # "idle" /\ call[o].key = k} |-> sess[o]] >>

\* The same, in the state after the step.
KeyStateAfter(k) ==
  << activeSessions'[k], sessionLocks'[k], createCalls'[k], removals'[k],
     {c \in resolvedLocks' : call'[c].key = k},
     [o \in {o \in ObjIds : call'[o].pc # "idle" /\ call'[o].key = k} |-> sess'[o]] >>

\* The keys of the queryV2 calls that take a step.
SteppingKeys == {call'[c].key : c \in {c \in Calls : call'[c] # call[c]}}

\* C34: a step of a queryV2 call on key k (its failure paths included), and
\* a sendToActiveSession or closeSession call on k, change nothing that
\* belongs to another key: registry entry, lock, session fields.
C34_KeysIndependent ==
  [][ \A k \in Keys :
        (IF SteppingKeys = {} THEN k # HostKey ELSE k \notin SteppingKeys)
           => KeyStateAfter(k) = KeyState(k)
    ]_vars

\* A call on k1 has failed and its entry is gone, after an injection on
\* k1, while the session of k2 is registered and streaming
\* with the id its message carried.
C34_Witness ==
  \E c, d \in Calls :
     /\ call[c].key = "k1" /\ call[c].pc = "done" /\ call[c].failedAt = "stream"
     /\ activeSessions["k1"] = NoSession /\ removals["k1"] = 1
     /\ injections = 1
     /\ call[d].key = "k2" /\ call[d].pc = "yielded"
     /\ activeSessions["k2"] = d /\ sess[d].streaming /\ sess[d].sessionId = "sidA"


\* C35: a session's streaming flag is true only while a queryV2 call that
\* set it is still sending or relaying: every call that ends, by completion,
\* by an error or by the consumer abandoning the generator, has cleared it.
C35_StreamingFlagCleared ==
  \A o \in ObjIds :
     sess[o].streaming
        => \E c \in Calls : call[c].active = o /\ Relaying(c)


\* C36: the step in which a queryV2 call fails during send or streaming
\* removes no session but the one the call was using: an entry of its key
\* that holds another session object is left as it is.
C36_FailureRemovesOwnSessionOnly ==
  [][ \A c \in Calls :
        (call[c].pc # "done" /\ call'[c].pc = "done"
           /\ call'[c].failedAt \in {"send", "stream"}
           /\ activeSessions[call[c].key] # call[c].active)
           => activeSessions'[call[c].key] = activeSessions[call[c].key]
    ]_vars


\* C37: a session that leaves the registry has had close() called on its
\* handle, by the step that removes it at the latest, whichever operation
\* removes it.
C37_RemovedSessionsClosed ==
  [][ \A k \in Keys :
        (activeSessions[k] # NoSession /\ activeSessions'[k] # activeSessions[k])
           => sess'[activeSessions[k]].closedBy # "none"
    ]_vars


\* C38: the lock map holds an entry for a key only while a call is inside
\* the guarded section on that key: the entry is the lock of such a call.
\* The step in which a create-or-resume call throws leaves no session
\* registered for the key.
C38_NoLockLeak ==
  [][ /\ \A k \in Keys :
           sessionLocks'[k] # NoLock
              => /\ call'[sessionLocks'[k]].pc = "inLock"
                 /\ call'[sessionLocks'[k]].key = k
      /\ \A c \in Calls :
           (call[c].failedAt # "create" /\ call'[c].failedAt = "create")
              => activeSessions'[call'[c].key] = NoSession
    ]_vars

\* Three calls have been through the section on one key and have left it,
\* the first with a create call that threw, and shutdown has cleared the
\* maps along the way: no lock is left.
C38_Witness ==
  /\ \A c \in 1..3 : call[c].pc \in {"sending", "done"}
  /\ call[1].failedAt = "create"
  /\ resolvedLocks = {1, 2, 3}
  /\ createCalls["k1"] = 3
  /\ removals["k1"] >= 1
  /\ ~cleanupIntervalId
  /\ sessionLocks["k1"] = NoLock


\* C39: whenever a session is registered the sweep timer is scheduled, so
\* that the session is subject to idle reclamation.
C39_SweepScheduledWhileSessionsExist ==
  (\E k \in Keys : activeSessions[k] # NoSession) => cleanupIntervalId


\* C40: the provider's defaultModel is one of its supportedModels.
C40_DefaultModelSupported ==
  \E i \in DOMAIN anthropicProvider.supportedModels :
     anthropicProvider.supportedModels[i] = anthropicProvider.defaultModel

====
